---- MODULE Spec2Model ----
(***************************************************************************)
(* A model of lightning/src/routing/router.rs: get_route, the payee-to-    *)
(* payer path search with multi-path collection and route composition.     *)
(*                                                                         *)
(* Rust's Option<T> is a sequence of length 0 (None) or 1 (Some(v)).        *)
(* Integers are kept in a machine width: u64 and u32 are scaled to the     *)
(* widths U64_MAX and U32_MAX so that checked arithmetic (checked_add,      *)
(* checked_mul, checked_sub) and saturation behave as in the source.  An   *)
(* arithmetic operation the source leaves unchecked, an unreachable!() and  *)
(* a failed assert!() end the call with the result "Panic".                *)
(***************************************************************************)
EXTENDS Integers, Sequences, FiniteSets, TLC

VARIABLES
  our_node_id,        \* get_route argument: the payer
  network,            \* get_route argument: the NetworkGraph (nodes, channels)
  payee,              \* get_route argument
  payee_features,     \* get_route argument: Option<InvoiceFeatures>
  first_hops,         \* get_route argument: Option<[ChannelDetails]>
  last_hops,          \* get_route argument: [RouteHint]
  final_value_msat,   \* get_route argument
  final_cltv,         \* get_route argument
  pc,                 \* position in get_route
  allow_mpp,          \* local of get_route
  first_hop_targets,  \* local HashMap: remote_network_id -> (scid, features, outbound)
  bookkeeped_channels_liquidity_available_msat, \* local HashMap: scid -> msat
  already_collected_value_msat,                 \* local
  targets,            \* local BinaryHeap<RouteGraphNode>, as a sequence
  dist,               \* local HashMap: node id -> PathBuildingHop
  found_new_path,     \* local of 'paths_collection
  payment_paths,      \* local Vec<PaymentPath>
  drawn_routes,       \* local Vec<Vec<PaymentPath>>
  draw_i,             \* loop index of the route drawing loop
  iterations,         \* number of path searches started (observer)
  reduced,            \* per drawn route: the path handed to the value reduction (observer)
  result,             \* what get_route returned
  calls,              \* the number of calls of get_route made (observer)
  earlier_result,     \* what the call before this one returned (observer)
  popped              \* the nodes targets.pop() returned in this search, in order (observer)

vars == << our_node_id, network, payee, payee_features, first_hops, last_hops,
           final_value_msat, final_cltv, pc, allow_mpp, first_hop_targets,
           bookkeeped_channels_liquidity_available_msat,
           already_collected_value_msat, targets, dist, found_new_path,
           payment_paths, drawn_routes, draw_i, iterations, reduced, result,
           calls, earlier_result, popped >>

\* what a call of get_route leaves alone: its arguments and the record of the calls
inputs == << our_node_id, network, payee, payee_features, first_hops, last_hops,
             final_value_msat, final_cltv, calls, earlier_result >>

----------------------------------------------------------------------------
(* Machine integers and Option                                             *)

\* u64::max_value(), scaled to the model's integer width
U64_MAX == 2147483647
\* u32::max_value(), scaled likewise
U32_MAX == 65535
\* ln::msgs::MAX_VALUE_MSAT, scaled so that 3 * MAX_VALUE_MSAT fits the width
MAX_VALUE_MSAT == 500000000

None == << >>
Some(v) == << v >>
IsSome(o) == o # << >>
Unwrap(o) == o[1]

checked_add(a, b) == IF a > U64_MAX - b THEN None ELSE Some(a + b)
checked_sub(a, b) == IF a < b THEN None ELSE Some(a - b)
checked_mul(a, b) == IF b # 0 /\ a > U64_MAX \div b THEN None ELSE Some(a * b)

Min(a, b) == IF a <= b THEN a ELSE b

\* the empty feature set; `unknown` = requires_unknown_bits(), `mpp` = supports_basic_mpp()
EmptyFeatures == [unknown |-> FALSE, mpp |-> FALSE]

\* Features::to_context keeps the bits known to the target context
to_context(f) == [unknown |-> FALSE, mpp |-> f.mpp]

----------------------------------------------------------------------------
(* Fee arithmetic                                                          *)

compute_fees(amount_msat, channel_fees) ==
  LET proportional_fee_millions ==
        checked_mul(amount_msat, channel_fees.proportional_millionths)
  IN  IF IsSome(proportional_fee_millions)
      THEN checked_add(channel_fees.base_msat,
                       Unwrap(proportional_fee_millions) \div 1000000)
      ELSE None

----------------------------------------------------------------------------
(* PaymentPath: a sequence of PathBuildingHop, payer first                 *)

get_value_msat(hops) == hops[Len(hops)].route_hop.fee_msat

RECURSIVE SumFeesBefore(_, _)
SumFeesBefore(hops, n) ==
  IF n = 0 THEN 0 ELSE SumFeesBefore(hops, n - 1) + hops[n].route_hop.fee_msat

get_total_fee_paid_msat(hops) ==
  IF Len(hops) < 1 THEN 0 ELSE SumFeesBefore(hops, Len(hops) - 1)

\* The tail of one turn of the loop of update_value_and_recompute_fees for hop i,
\* given the amount transferred over the hop before the htlc_minimum_msat top-up
\* (amount0) and the top-up (extra_fees_msat): the hop's fee_msat, its
\* hop_use_fee_msat (new_fee, None when compute_fees overflows: unreachable!())
\* and the running total_fee_paid_msat.
RecomputeFees(st, i, amount0, extra_fees_msat, cur_hop_fees_msat, total1, new_fee) ==
  IF ~IsSome(cur_hop_fees_msat) \/ ~IsSome(total1) \/ ~IsSome(new_fee)
  THEN [st EXCEPT !.panic = TRUE]
  ELSE IF ~IsSome(checked_add(Unwrap(total1), Unwrap(new_fee)))
  THEN [st EXCEPT !.panic = TRUE]
  ELSE [hops |-> [st.hops EXCEPT
                    ![i].next_hops_fee_msat = st.total,
                    ![i].route_hop.fee_msat =
                        IF i = Len(st.hops) THEN amount0 + extra_fees_msat
                        ELSE Unwrap(cur_hop_fees_msat),
                    ![i].hop_use_fee_msat = IF i # 1 THEN Unwrap(new_fee) ELSE @],
        total |-> Unwrap(total1) + Unwrap(new_fee),
        panic |-> FALSE]

\* A variant that never tops a hop up to its htlc_minimum_msat.
NoExtraFees(hop, amount0) == 0

\* A variant that adds the htlc_minimum_msat of the hop on top of every amount.
ExtraFeesOnTop(hop, amount0) == hop.htlc_minimum_msat

\* The htlc_minimum_msat top-up of hop i: htlc_minimum_msat.checked_sub(amount)
ExtraFees(hop, amount0) ==
  IF hop.htlc_minimum_msat >= amount0 THEN hop.htlc_minimum_msat - amount0 ELSE 0

\* A variant that charges the fee for the use of hop i on the amount before the
\* htlc_minimum_msat top-up.
RecomputeTopUpAfterFee(st, i, amount0, extra_fees_msat) ==
  RecomputeFees(st, i, amount0, extra_fees_msat,
                checked_add(IF i = Len(st.hops) THEN 0
                            ELSE st.hops[i + 1].hop_use_fee_msat,
                            extra_fees_msat),
                checked_add(st.total, extra_fees_msat),
                IF i # 1
                THEN compute_fees(amount0, st.hops[i].channel_fees)
                ELSE Some(0))

RecomputeTopUp(st, i, amount0, extra_fees_msat) ==
  RecomputeFees(st, i, amount0, extra_fees_msat,
                checked_add(IF i = Len(st.hops) THEN 0
                            ELSE st.hops[i + 1].hop_use_fee_msat,
                            extra_fees_msat),
                checked_add(st.total, extra_fees_msat),
                IF i # 1
                THEN compute_fees(amount0 + extra_fees_msat, st.hops[i].channel_fees)
                ELSE Some(0))

RecomputeAmount(st, i, amount0) ==
  IF ~IsSome(amount0) THEN [st EXCEPT !.panic = TRUE]
  ELSE RecomputeTopUp(st, i, Unwrap(amount0), ExtraFees(st.hops[i], Unwrap(amount0)))

\* One turn of the loop of update_value_and_recompute_fees, for hop i (1-based,
\* from the last hop down to the first).  st = [hops, total, panic].
RecomputeHop(st, value_msat, i) ==
  IF st.panic THEN st
  ELSE RecomputeAmount(st, i, checked_add(st.total, value_msat))

RECURSIVE RecomputeFrom(_, _, _)
RecomputeFrom(st, value_msat, i) ==
  IF i = 0 THEN st
  ELSE RecomputeFrom(RecomputeHop(st, value_msat, i), value_msat, i - 1)

\* PaymentPath::update_value_and_recompute_fees: [hops, total, panic]
update_value_and_recompute_fees(hops, value_msat) ==
  IF value_msat > get_value_msat(hops)
  THEN [hops |-> hops, total |-> 0, panic |-> TRUE]
  ELSE RecomputeFrom([hops |-> hops, total |-> 0, panic |-> FALSE],
                     value_msat, Len(hops))

----------------------------------------------------------------------------
(* The relaxation primitive.  A search state is                            *)
(*   s = [book, dist, targets, panic]                                       *)
(* book = bookkeeped_channels_liquidity_available_msat.                     *)

\* dummy_directional_info, used for first_hops routes
dummy_directional_info ==
  [enabled |-> TRUE, cltv_expiry_delta |-> 0, htlc_minimum_msat |-> 0,
   htlc_maximum_msat |-> None,
   fees |-> [base_msat |-> 0, proportional_millionths |-> 0]]

\* capacity assumed for a channel of unknown balance: 250_000 sats, in msat
DEFAULT_CHANNEL_CAPACITY_MSAT == 250000000

\* A variant that recommends four times the final value.
RecommendedValueTimesFour == final_value_msat * 4

recommended_value_msat == final_value_msat * 3

\* A variant that derives the liquidity from capacity_sats alone when it is known.
InitialLiquidityFromCapacity(directional_info, capacity_sats) ==
  IF IsSome(capacity_sats) THEN checked_mul(Unwrap(capacity_sats), 1000)
  ELSE IF IsSome(directional_info.htlc_maximum_msat)
  THEN directional_info.htlc_maximum_msat
  ELSE Some(DEFAULT_CHANNEL_CAPACITY_MSAT)

\* The closure of or_insert_with: Option, None when capacity_sats * 1000 overflows.
initial_liquidity_available_msat(directional_info, capacity_sats) ==
  LET cap == IF IsSome(capacity_sats)
             THEN checked_mul(Unwrap(capacity_sats), 1000) ELSE Some(0)
      max == directional_info.htlc_maximum_msat
  IN  IF ~IsSome(cap) THEN None
      ELSE IF IsSome(capacity_sats)
      THEN IF IsSome(max) THEN Some(Min(Unwrap(cap), Unwrap(max))) ELSE cap
      ELSE IF IsSome(max) THEN max
      ELSE Some(DEFAULT_CHANNEL_CAPACITY_MSAT)

\* A variant that asks every channel to carry the whole payment, MPP or not.
MinimalContributionWholeValue(collected) == Some(final_value_msat)

\* A variant that asks for the twentieth of the missing value without MPP too.
MinimalContributionAsWithMpp(collected) ==
  LET d == checked_sub(recommended_value_msat, collected)
      a == IF IsSome(d) THEN checked_add(Unwrap(d), 19) ELSE None
  IN  IF IsSome(a) THEN Some(Unwrap(a) \div 20) ELSE None

\* A variant that accepts any channel contributing at least 1 msat.
MinimalContributionOneMsat(collected) == Some(1)

\* Option; None when the subtraction underflows or the addition overflows.
minimal_value_contribution_msat(collected) ==
  IF allow_mpp
  THEN LET d == checked_sub(recommended_value_msat, collected)
           a == IF IsSome(d) THEN checked_add(Unwrap(d), 19) ELSE None
       IN  IF IsSome(a) THEN Some(Unwrap(a) \div 20) ELSE None
  ELSE Some(final_value_msat)

\* The semi-dummy record inserted into dist for a source seen for the first time.
DummyHop(src_node_id, dest_node_id, directional_info, chan_features) ==
  LET known == src_node_id \in DOMAIN network.nodes
               /\ IsSome(network.nodes[src_node_id].lowest_inbound_channel_fees)
  IN  [route_hop |-> [pubkey |-> dest_node_id, node_features |-> EmptyFeatures,
                      short_channel_id |-> 0, channel_features |-> chan_features,
                      fee_msat |-> 0, cltv_expiry_delta |-> 0],
       src_lowest_inbound_fees |->
           IF known THEN Unwrap(network.nodes[src_node_id].lowest_inbound_channel_fees)
           ELSE [base_msat |-> U32_MAX, proportional_millionths |-> U32_MAX],
       channel_fees |-> directional_info.fees,
       next_hops_fee_msat |-> U64_MAX,
       hop_use_fee_msat |-> U64_MAX,
       total_fee_msat |-> U64_MAX,
       htlc_minimum_msat |-> directional_info.htlc_minimum_msat]

\* total_fee_msat of a candidate once the hop's own fee is known: the fee, the fees
\* of the next hops and the estimated fee of the previous hop.  t1 = next hops' fee
\* + own fee, t2 = t1 + amount, both unchecked in the source.
CandidateTotal(fee_msat, t1, t2, inbound_fees) ==
  IF ~IsSome(t1)
  THEN [hop_use |-> fee_msat, total |-> 0, panic |-> TRUE]
  ELSE IF ~IsSome(t2)
  THEN [hop_use |-> fee_msat, total |-> 0, panic |-> TRUE]
  ELSE IF ~IsSome(compute_fees(Unwrap(t2), inbound_fees))
  THEN [hop_use |-> fee_msat, total |-> U64_MAX, panic |-> FALSE]
  ELSE [hop_use |-> fee_msat,
        total |-> LET inc == checked_add(Unwrap(t1),
                                         Unwrap(compute_fees(Unwrap(t2), inbound_fees)))
                  IN  IF IsSome(inc) THEN Unwrap(inc) ELSE U64_MAX,
        panic |-> FALSE]

\* A variant in which a hop-use fee that overflows counts as no fee.
CandidateWithFeeWrapping(fee, amount, next_hops_fee_msat, inbound_fees) ==
  IF ~IsSome(fee)
  THEN [hop_use |-> 0, total |-> next_hops_fee_msat, panic |-> FALSE]
  ELSE CandidateTotal(Unwrap(fee),
                      checked_add(next_hops_fee_msat, Unwrap(fee)),
                      checked_add(next_hops_fee_msat + Unwrap(fee), amount),
                      inbound_fees)

CandidateWithFee(fee, amount, next_hops_fee_msat, inbound_fees) ==
  IF ~IsSome(fee)
  THEN [hop_use |-> 0, total |-> U64_MAX, panic |-> FALSE]
  ELSE CandidateTotal(Unwrap(fee),
                      checked_add(next_hops_fee_msat, Unwrap(fee)),
                      checked_add(next_hops_fee_msat + Unwrap(fee), amount),
                      inbound_fees)

\* Is the fee of a hop charged?  Not for a channel from the payer.
ChargesHopFee(src_node_id) == src_node_id # our_node_id

\* hop_use_fee_msat and total_fee_msat of a candidate: [hop_use, total, panic]
CandidateFees(src_node_id, directional_info, amount, next_hops_fee_msat, inbound_fees) ==
  IF ChargesHopFee(src_node_id)
  THEN CandidateWithFee(compute_fees(amount, directional_info.fees), amount,
                        next_hops_fee_msat, inbound_fees)
  ELSE [hop_use |-> 0, total |-> next_hops_fee_msat, panic |-> FALSE]

saturating_cost(total_fee_msat, htlc_minimum_msat) ==
  IF total_fee_msat > U64_MAX - htlc_minimum_msat THEN U64_MAX
  ELSE total_fee_msat + htlc_minimum_msat

\* A variant that lets a candidate of equal cost replace the entry.
CheaperOrEqual(new_cost, old_cost) == new_cost <= old_cost

\* new_cost < old_cost, the test that lets a candidate replace the dist entry
Cheaper(new_cost, old_cost) == new_cost < old_cost

\* the htlc_minimum_msat check of add_entry
MeetsHtlcMinimum(amount, directional_info) ==
  amount >= directional_info.htlc_minimum_msat

\* The entry of dist[src] once the candidate has replaced it.
NewEntry(old_entry, chan_id, dest_node_id, directional_info, chan_features, next_hops_fee_msat, f) ==
  [old_entry EXCEPT
     !.next_hops_fee_msat = next_hops_fee_msat,
     !.hop_use_fee_msat = f.hop_use,
     !.total_fee_msat = f.total,
     !.route_hop = [pubkey |-> dest_node_id,
                    node_features |-> EmptyFeatures,
                    short_channel_id |-> chan_id,
                    channel_features |-> chan_features,
                    fee_msat |-> 0,
                    cltv_expiry_delta |-> directional_info.cltv_expiry_delta],
     !.channel_fees = directional_info.fees,
     !.htlc_minimum_msat = directional_info.htlc_minimum_msat]

\* The comparison with the entry of dist and, if the candidate is cheaper, the push
\* onto targets and the replacement of the entry.
ReplaceIfCheaper(s, chan_id, src_node_id, dest_node_id, directional_info, chan_features, next_hops_fee_msat, value_contribution_msat, f) ==
  IF f.panic THEN [s EXCEPT !.panic = TRUE]
  ELSE IF Cheaper(saturating_cost(f.total, directional_info.htlc_minimum_msat),
                  saturating_cost(s.dist[src_node_id].total_fee_msat,
                                  s.dist[src_node_id].htlc_minimum_msat))
  THEN [s EXCEPT
          !.dist[src_node_id] =
              NewEntry(@, chan_id, dest_node_id, directional_info, chan_features,
                       next_hops_fee_msat, f),
          !.targets =
              Append(@, [pubkey |-> src_node_id,
                         lowest_fee_to_peer_through_node |-> f.total,
                         lowest_fee_to_node |-> next_hops_fee_msat + f.hop_use,
                         value_contribution_msat |-> value_contribution_msat])]
  ELSE s

\* dist.entry(src).or_insert_with(..)
WithDummy(s, src_node_id, dest_node_id, directional_info, chan_features) ==
  IF src_node_id \in DOMAIN s.dist THEN s
  ELSE [s EXCEPT !.dist = (src_node_id :>
                             DummyHop(src_node_id, dest_node_id, directional_info,
                                      chan_features)) @@ s.dist]

RelaxCandidate(s, chan_id, src_node_id, dest_node_id, directional_info, chan_features, next_hops_fee_msat, value_contribution_msat, amount) ==
  ReplaceIfCheaper(s, chan_id, src_node_id, dest_node_id, directional_info,
                   chan_features, next_hops_fee_msat, value_contribution_msat,
                   CandidateFees(src_node_id, directional_info, amount,
                                 next_hops_fee_msat,
                                 s.dist[src_node_id].src_lowest_inbound_fees))

\* The checks on the value the channel contributes: minimal is
\* minimal_value_contribution_msat, amount is amount_to_transfer_over_msat.
RelaxWithAmount(s, chan_id, src_node_id, dest_node_id, directional_info, chan_features, next_hops_fee_msat, available_value_contribution_msat, value_contribution_msat, minimal, amount) ==
  IF ~IsSome(minimal) \/ ~IsSome(amount) THEN [s EXCEPT !.panic = TRUE]
  ELSE IF /\ available_value_contribution_msat >= Unwrap(minimal)
          /\ MeetsHtlcMinimum(Unwrap(amount), directional_info)
  THEN RelaxCandidate(WithDummy(s, src_node_id, dest_node_id, directional_info,
                                chan_features),
                      chan_id, src_node_id, dest_node_id, directional_info,
                      chan_features, next_hops_fee_msat, value_contribution_msat,
                      Unwrap(amount))
  ELSE s

RelaxWithContribution(s, chan_id, src_node_id, dest_node_id, directional_info, chan_features, next_hops_fee_msat, next_hops_value_contribution, available) ==
  IF ~IsSome(available) THEN s
  ELSE RelaxWithAmount(s, chan_id, src_node_id, dest_node_id, directional_info,
                       chan_features, next_hops_fee_msat, Unwrap(available),
                       Min(Unwrap(available), next_hops_value_contribution),
                       minimal_value_contribution_msat(already_collected_value_msat),
                       checked_add(Min(Unwrap(available), next_hops_value_contribution),
                                   next_hops_fee_msat))

\* bookkeeped_channels_liquidity_available_msat.entry(chan_id).or_insert_with(..)
Memoize(s, chan_id, liquidity) ==
  IF chan_id \in DOMAIN s.book THEN s
  ELSE [s EXCEPT !.book = (chan_id :> liquidity) @@ s.book]

\* The liquidity of the channel: the booked value if there is one.
ChannelLiquidity(book, chan_id, directional_info, capacity_sats) ==
  IF chan_id \in DOMAIN book THEN Some(book[chan_id])
  ELSE initial_liquidity_available_msat(directional_info, capacity_sats)

RelaxWithLiquidity(s, chan_id, src_node_id, dest_node_id, directional_info, chan_features, next_hops_fee_msat, next_hops_value_contribution, liquidity) ==
  IF ~IsSome(liquidity) THEN [s EXCEPT !.panic = TRUE]
  ELSE RelaxWithContribution(Memoize(s, chan_id, Unwrap(liquidity)),
                             chan_id, src_node_id, dest_node_id, directional_info,
                             chan_features, next_hops_fee_msat,
                             next_hops_value_contribution,
                             checked_sub(Unwrap(liquidity), next_hops_fee_msat))

\* A variant that relaxes a channel from a node to itself like any other.
add_entry_to_self(s, chan_id, src_node_id, dest_node_id, directional_info, capacity_sats, chan_features, next_hops_fee_msat, next_hops_value_contribution) ==
  IF s.panic THEN s
  ELSE RelaxWithLiquidity(s, chan_id, src_node_id, dest_node_id, directional_info,
                          chan_features, next_hops_fee_msat,
                          next_hops_value_contribution,
                          ChannelLiquidity(s.book, chan_id, directional_info,
                                           capacity_sats))

add_entry(s, chan_id, src_node_id, dest_node_id, directional_info, capacity_sats, chan_features, next_hops_fee_msat, next_hops_value_contribution) ==
  IF s.panic \/ src_node_id = dest_node_id THEN s
  ELSE RelaxWithLiquidity(s, chan_id, src_node_id, dest_node_id, directional_info,
                          chan_features, next_hops_fee_msat,
                          next_hops_value_contribution,
                          ChannelLiquidity(s.book, chan_id, directional_info,
                                           capacity_sats))

\* add_entry! for the first_hops channel to node_id: from the payer, free of charge,
\* with the channel's outbound capacity.
FirstHopEntry(s, node_id, fee_to_target_msat, next_hops_value_contribution) ==
  add_entry(s, first_hop_targets[node_id].short_channel_id, our_node_id, node_id,
            dummy_directional_info,
            Some(first_hop_targets[node_id].outbound_capacity_msat \div 1000),
            to_context(first_hop_targets[node_id].features), fee_to_target_msat,
            next_hops_value_contribution)

\* The first_hops channel to node_id, if first_hops is given and has one.
AddFirstHopEntry(s, node_id, fee_to_target_msat, next_hops_value_contribution) ==
  IF IsSome(first_hops) /\ node_id \in DOMAIN first_hop_targets
  THEN FirstHopEntry(s, node_id, fee_to_target_msat, next_hops_value_contribution)
  ELSE s

\* May the graph channel direction whose source is src be relaxed at all?
SourceAllowed(src) == ~IsSome(first_hops) \/ src # our_node_id

\* Is the graph node (by its announcement) usable as the target of graph channels?
NodeUsable(node) ==
  IF IsSome(node.announcement_info)
  THEN ~Unwrap(node.announcement_info).features.unknown
  ELSE ~EmptyFeatures.unknown

\* A variant that does not look at the enabled bit.
DirectionPresent(dir) == IsSome(dir)

\* Is the directional info of a graph channel present and enabled?
DirectionUsable(dir) == IsSome(dir) /\ Unwrap(dir).enabled

\* Are the features of a graph channel understood?
ChannelUsable(chan) == ~chan.features.unknown

\* The direction of chan that leads to node_id: its source, target and info.
DirectionTo(chan, node_id) ==
  IF chan.node_one = node_id
  THEN [src |-> chan.node_two, dest |-> chan.node_one, info |-> chan.two_to_one]
  ELSE [src |-> chan.node_one, dest |-> chan.node_two, info |-> chan.one_to_two]

AddDirectionEntry(s, chan_id, chan, d, fee_to_target_msat, next_hops_value_contribution) ==
  IF ChannelUsable(chan) /\ SourceAllowed(d.src) /\ DirectionUsable(d.info)
  THEN add_entry(s, chan_id, d.src, d.dest, Unwrap(d.info), chan.capacity_sats,
                 chan.features, fee_to_target_msat, next_hops_value_contribution)
  ELSE s

\* The body of the loop over $node.channels, for one channel id.
AddChannelEntry(s, chan_id, node_id, fee_to_target_msat, next_hops_value_contribution) ==
  AddDirectionEntry(s, chan_id, network.channels[chan_id],
                    DirectionTo(network.channels[chan_id], node_id),
                    fee_to_target_msat, next_hops_value_contribution)

RECURSIVE AddChannelEntries(_, _, _, _, _, _)
AddChannelEntries(s, chans, k, node_id, fee_to_target_msat, next_hops_value_contribution) ==
  IF k > Len(chans) THEN s
  ELSE AddChannelEntries(
         AddChannelEntry(s, chans[k], node_id, fee_to_target_msat,
                         next_hops_value_contribution),
         chans, k + 1, node_id, fee_to_target_msat, next_hops_value_contribution)

\* The loop over $node.channels, if the node's features allow it.
AddGraphEntries(s, node, node_id, fee_to_target_msat, next_hops_value_contribution) ==
  IF NodeUsable(node)
  THEN AddChannelEntries(s, node.channels, 1, node_id, fee_to_target_msat,
                         next_hops_value_contribution)
  ELSE s

add_entries_to_cheapest_to_target_node(s, node, node_id, fee_to_target_msat, next_hops_value_contribution) ==
  AddGraphEntries(AddFirstHopEntry(s, node_id, fee_to_target_msat,
                                   next_hops_value_contribution),
                  node, node_id, fee_to_target_msat, next_hops_value_contribution)

----------------------------------------------------------------------------
(* Results, the frontier and sorting                                       *)

NoResult == [tag |-> "None", err |-> "", action |-> "", paths |-> << >>]
Err(msg) == [tag |-> "Err", err |-> msg, action |-> "IgnoreError", paths |-> << >>]
Ok(paths) == [tag |-> "Ok", err |-> "", action |-> "", paths |-> paths]
Panic == [tag |-> "Panic", err |-> "", action |-> "", paths |-> << >>]

\* impl Ord for RouteGraphNode: a > b (a is popped before b)
Greater(a, b) ==
  \/ a.lowest_fee_to_peer_through_node < b.lowest_fee_to_peer_through_node
  \/ /\ a.lowest_fee_to_peer_through_node = b.lowest_fee_to_peer_through_node
     /\ a.pubkey < b.pubkey

\* The entries BinaryHeap::pop may return: the greatest ones.  Entries that compare
\* Equal are popped in an order the heap's layout decides; any of them may come first.
PopCandidates(heap) ==
  { i \in 1..Len(heap) :
      /\ \A j \in 1..Len(heap) : ~Greater(heap[j], heap[i])
      /\ \A j \in 1..(i - 1) : heap[j] # heap[i] }

RemoveAt(seq, i) == SubSeq(seq, 1, i - 1) \o SubSeq(seq, i + 1, Len(seq))

\* A stable sort of records [k, v] by ascending k (slice::sort_by_key).
RECURSIVE InsertSorted(_, _)
InsertSorted(sorted, x) ==
  IF sorted = << >> THEN << x >>
  ELSE IF Head(sorted).k <= x.k
  THEN << Head(sorted) >> \o InsertSorted(Tail(sorted), x)
  ELSE << x >> \o sorted

RECURSIVE SortPairs(_, _)
SortPairs(pairs, n) ==
  IF n = 0 THEN << >> ELSE InsertSorted(SortPairs(pairs, n - 1), pairs[n])

Values(pairs) == [i \in 1..Len(pairs) |-> pairs[i].v]

SortPathsByTotalFee(paths) ==
  Values(SortPairs([i \in 1..Len(paths) |->
                      [k |-> get_total_fee_paid_msat(paths[i]), v |-> paths[i]]],
                   Len(paths)))

SortPathsByValue(paths) ==
  Values(SortPairs([i \in 1..Len(paths) |->
                      [k |-> get_value_msat(paths[i]), v |-> paths[i]]],
                   Len(paths)))

RECURSIVE SumProportional(_, _)
SumProportional(hops, n) ==
  IF n = 0 THEN 0
  ELSE SumProportional(hops, n - 1) + hops[n].channel_fees.proportional_millionths

\* the key of the sort of step 7
ProportionalFeeKey(hops) == SumProportional(hops, Len(hops))

SortPathsByProportionalFee(paths) ==
  Values(SortPairs([i \in 1..Len(paths) |->
                      [k |-> ProportionalFeeKey(paths[i]), v |-> paths[i]]],
                   Len(paths)))

RECURSIVE RouteTotalFee(_, _)
RouteTotalFee(paths, n) ==
  IF n = 0 THEN 0
  ELSE RouteTotalFee(paths, n - 1) + get_total_fee_paid_msat(paths[n])

SortRoutesByTotalFee(routes) ==
  Values(SortPairs([i \in 1..Len(routes) |->
                      [k |-> RouteTotalFee(routes[i], Len(routes[i])), v |-> routes[i]]],
                   Len(routes)))

----------------------------------------------------------------------------
(* Path reconstruction and liquidity bookkeeping                           *)

\* node_features of the hop that ends at pubkey, as 'path_walk fills them in
WalkFeatures(pubkey, old) ==
  IF pubkey \in DOMAIN first_hop_targets
  THEN to_context(first_hop_targets[pubkey].features)
  ELSE IF pubkey \in DOMAIN network.nodes
  THEN IF IsSome(network.nodes[pubkey].announcement_info)
       THEN Unwrap(network.nodes[pubkey].announcement_info).features
       ELSE EmptyFeatures
  ELSE old

\* 'path_walk: [hops, dist, panic]; d is dist with the entries walked so far removed.
RECURSIVE PathWalk(_, _)
PathWalk(hops, d) ==
  LET n == Len(hops)
      pubkey == hops[n].route_hop.pubkey
      hops1 == [hops EXCEPT ![n].route_hop.node_features = WalkFeatures(pubkey, @)]
  IN  IF /\ pubkey \notin DOMAIN first_hop_targets
         /\ pubkey \notin DOMAIN network.nodes
         /\ pubkey # payee
      THEN [hops |-> hops, dist |-> d, panic |-> TRUE]
      ELSE IF pubkey = payee
      THEN [hops |-> hops1, dist |-> d, panic |-> FALSE]
      ELSE IF pubkey \notin DOMAIN d
      THEN [hops |-> hops1, dist |-> d, panic |-> TRUE]
      ELSE LET new_entry == d[pubkey]
               hops2 == [hops1 EXCEPT
                           ![n].route_hop.fee_msat = new_entry.hop_use_fee_msat,
                           ![n].route_hop.cltv_expiry_delta =
                               new_entry.route_hop.cltv_expiry_delta]
           IN  PathWalk(Append(hops2, new_entry),
                        [x \in (DOMAIN d) \ {pubkey} |-> d[x]])

\* The loop that books a new path's use of its channels: [book, ok, panic].
\* ok = FALSE is the break out of 'path_construction on insufficient liquidity.
RECURSIVE SpendLiquidity(_, _, _, _)
SpendLiquidity(book, hops, k, value_contribution_msat) ==
  IF k > Len(hops) THEN [book |-> book, ok |-> TRUE, panic |-> FALSE]
  ELSE LET scid == hops[k].route_hop.short_channel_id
           spent == checked_add(value_contribution_msat, hops[k].next_hops_fee_msat)
       IN  IF scid \notin DOMAIN book \/ ~IsSome(spent)
           THEN [book |-> book, ok |-> FALSE, panic |-> TRUE]
           ELSE IF book[scid] < Unwrap(spent)
           THEN [book |-> book, ok |-> FALSE, panic |-> FALSE]
           ELSE SpendLiquidity([book EXCEPT ![scid] = @ - Unwrap(spent)],
                               hops, k + 1, value_contribution_msat)

\* A variant that leaves the last hop the CLTV delta of its channel.
TerminalHopKeepingCltv(hops, value_contribution_msat) ==
  [hops EXCEPT ![Len(hops)].route_hop.fee_msat = value_contribution_msat,
               ![Len(hops)].hop_use_fee_msat = 0]

\* The last hop of a walked path carries the value and the final CLTV.
TerminalHop(hops, value_contribution_msat) ==
  [hops EXCEPT ![Len(hops)].route_hop.fee_msat = value_contribution_msat,
               ![Len(hops)].hop_use_fee_msat = 0,
               ![Len(hops)].route_hop.cltv_expiry_delta = final_cltv]

Recomputed(w, r) == [hops |-> r.hops, dist |-> w.dist, panic |-> r.panic]

FinishPath(w, value_contribution_msat) ==
  IF w.panic THEN w
  ELSE Recomputed(w, update_value_and_recompute_fees(
                       TerminalHop(w.hops, value_contribution_msat),
                       value_contribution_msat))

\* The path built when the payer is popped: [hops, dist, panic]
BuildPath(value_contribution_msat) ==
  FinishPath(PathWalk(<< dist[our_node_id] >>,
                      [x \in (DOMAIN dist) \ {our_node_id} |-> dist[x]]),
             value_contribution_msat)

----------------------------------------------------------------------------
(* Route composition                                                       *)

\* A variant that drops only the paths of value below the remaining overpayment.
RECURSIVE RetainStrictlySmaller(_, _, _, _, _)
RetainStrictlySmaller(paths, k, kept, overpaid_value_msat, paths_left) ==
  IF k > Len(paths) THEN [route |-> kept, overpaid |-> overpaid_value_msat]
  ELSE IF paths_left # 1 /\ get_value_msat(paths[k]) < overpaid_value_msat
  THEN RetainStrictlySmaller(paths, k + 1, kept,
                             overpaid_value_msat - get_value_msat(paths[k]),
                             paths_left - 1)
  ELSE RetainStrictlySmaller(paths, k + 1, Append(kept, paths[k]),
                             overpaid_value_msat, paths_left)

\* cur_route.retain(..): drop whole paths of value <= the remaining overpayment,
\* keeping at least one path.  [route, overpaid]
RECURSIVE Retain(_, _, _, _, _)
Retain(paths, k, kept, overpaid_value_msat, paths_left) ==
  IF k > Len(paths) THEN [route |-> kept, overpaid |-> overpaid_value_msat]
  ELSE IF paths_left # 1 /\ get_value_msat(paths[k]) <= overpaid_value_msat
  THEN Retain(paths, k + 1, kept,
              overpaid_value_msat - get_value_msat(paths[k]), paths_left - 1)
  ELSE Retain(paths, k + 1, Append(kept, paths[k]), overpaid_value_msat, paths_left)

\* A variant that reduces the last path after the sort.
ReducedIndexLast(route) == Len(route)

\* The path of a route whose value is reduced in step 7: the first after the sort.
ReducedIndex(route) == 1

\* Step 7: path i of the sorted route gets the value new_value; u is the path after
\* update_value_and_recompute_fees.
ReducedRoute(by_fee, i, new_value, u) ==
  [route |-> [by_fee EXCEPT ![i] = u.hops],
   reduced |-> Some([before |-> by_fee[i], value_msat |-> new_value]),
   panic |-> u.panic]

ReduceTo(by_fee, i, new_value) ==
  IF ~IsSome(new_value)
  THEN [route |-> by_fee, reduced |-> None, panic |-> TRUE]
  ELSE ReducedRoute(by_fee, i, Unwrap(new_value),
                    update_value_and_recompute_fees(by_fee[i], Unwrap(new_value)))

\* A variant that leaves the value of the path as it was collected.
ReducePathKeepingValue(by_fee, i, overpaid_value_msat) ==
  ReduceTo(by_fee, i, Some(get_value_msat(by_fee[i])))

ReducePath(by_fee, i, overpaid_value_msat) ==
  ReduceTo(by_fee, i, checked_sub(get_value_msat(by_fee[i]), overpaid_value_msat))

\* r = [route, overpaid], the route and the overpayment left by retain
ReduceRetained(r) ==
  IF r.overpaid = 0
  THEN [route |-> r.route, reduced |-> None, panic |-> FALSE]
  ELSE IF Len(r.route) = 0
  THEN [route |-> r.route, reduced |-> None, panic |-> TRUE]
  ELSE ReducePath(SortPathsByProportionalFee(r.route), ReducedIndex(r.route),
                  r.overpaid)

\* Steps 6 and 7 once the aggregate value exceeds final_value_msat:
\* [route, reduced, panic]
ReduceOverpayment(cur_route, aggregate_route_value_msat) ==
  ReduceRetained(Retain(SortPathsByValue(cur_route), 1, << >>,
                        aggregate_route_value_msat - final_value_msat,
                        Len(cur_route)))

\* The loop of step 6 over cur_payment_paths: [route, reduced, panic]
RECURSIVE Compose(_, _, _, _)
Compose(paths, k, cur_route, aggregate_route_value_msat) ==
  IF k > Len(paths)
  THEN [route |-> cur_route, reduced |-> None, panic |-> FALSE]
  ELSE LET route1 == Append(cur_route, paths[k])
           agg == checked_add(aggregate_route_value_msat, get_value_msat(paths[k]))
       IN  IF ~IsSome(agg)
           THEN [route |-> route1, reduced |-> None, panic |-> TRUE]
           ELSE IF Unwrap(agg) > final_value_msat
           THEN ReduceOverpayment(route1, Unwrap(agg))
           ELSE Compose(paths, k + 1, route1, Unwrap(agg))

\* cur_payment_paths of the i-th draw (i counted from 0): paths[i..] ++ paths[..i]
Rotation(paths, i) == SubSeq(paths, i + 1, Len(paths)) \o SubSeq(paths, 1, i)

\* the number of collected paths kept for composition
MPP_PATHS_MAX == 50

Truncate(paths) ==
  IF Len(paths) > MPP_PATHS_MAX THEN SubSeq(paths, 1, MPP_PATHS_MAX) ELSE paths

\* A variant that copies all but the last hop of every path.
SelectedPathsWithoutLastHop(route) ==
  [p \in 1..Len(route) |->
     [h \in 1..(Len(route[p]) - 1) |-> route[p][h].route_hop]]

\* selected_paths: the RouteHops of the cheapest drawn route, payee features attached
SelectedPaths(route) ==
  [p \in 1..Len(route) |->
     [h \in 1..Len(route[p]) |->
        IF h = Len(route[p]) /\ IsSome(payee_features)
        THEN [route[p][h].route_hop EXCEPT
                !.node_features = to_context(Unwrap(payee_features))]
        ELSE route[p][h].route_hop]]

----------------------------------------------------------------------------
(* The steps of get_route                                                  *)

locals == << allow_mpp, first_hop_targets,
             bookkeeped_channels_liquidity_available_msat,
             already_collected_value_msat, targets, dist, found_new_path,
             payment_paths, drawn_routes, draw_i, iterations, reduced, popped >>

Return(r) == pc' = "done" /\ result' = r

\* Some last-hop hint has the payee as its source.
HintFromPayee == \E i \in 1..Len(last_hops) : last_hops[i].src_node_id = payee

\* A variant that checks the value before the payee.
InputErrorValueFirst ==
  IF final_value_msat > MAX_VALUE_MSAT
  THEN Some("Cannot generate a route of more value than all existing satoshis")
  ELSE IF final_value_msat = 0
  THEN Some("Cannot send a payment of 0 msat")
  ELSE IF payee = our_node_id
  THEN Some("Cannot generate a route to ourselves")
  ELSE IF HintFromPayee
  THEN Some("Last hop cannot have a payee as a source.")
  ELSE None

\* The input checks at the head of get_route, in the order of the source.
InputError ==
  IF payee = our_node_id
  THEN Some("Cannot generate a route to ourselves")
  ELSE IF final_value_msat > MAX_VALUE_MSAT
  THEN Some("Cannot generate a route of more value than all existing satoshis")
  ELSE IF final_value_msat = 0
  THEN Some("Cannot send a payment of 0 msat")
  ELSE IF HintFromPayee
  THEN Some("Last hop cannot have a payee as a source.")
  ELSE None

CheckInputs ==
  /\ pc = "check_inputs"
  /\ IF IsSome(InputError)
     THEN Return(Err(Unwrap(InputError)))
     ELSE pc' = "first_hops" /\ UNCHANGED result
  /\ UNCHANGED << inputs, locals >>

\* A variant that allows MPP when the payee features or the payee's announcement
\* advertise it.
AllowMppFromEither ==
  \/ IsSome(payee_features) /\ Unwrap(payee_features).mpp
  \/ /\ payee \in DOMAIN network.nodes
     /\ IsSome(network.nodes[payee].announcement_info)
     /\ Unwrap(network.nodes[payee].announcement_info).features.mpp

\* allow_mpp, as computed from the payee features or the payee's announcement
AllowMpp ==
  IF IsSome(payee_features)
  THEN Unwrap(payee_features).mpp
  ELSE IF payee \in DOMAIN network.nodes
  THEN IF IsSome(network.nodes[payee].announcement_info)
       THEN Unwrap(network.nodes[payee].announcement_info).features.mpp
       ELSE FALSE
  ELSE FALSE

\* The loop that fills first_hop_targets: [map, err, panic], stopping at the first
\* channel without a short_channel_id (expect) or with the payer as counterparty.
RECURSIVE FillFirstHopTargets(_, _, _)
FillFirstHopTargets(hops, k, map) ==
  IF k > Len(hops) THEN [map |-> map, err |-> None, panic |-> FALSE]
  ELSE LET chan == hops[k]
       IN  IF ~IsSome(chan.short_channel_id)
           THEN [map |-> map, err |-> None, panic |-> TRUE]
           ELSE IF chan.remote_network_id = our_node_id
           THEN [map |-> map,
                 err |-> Some("First hop cannot have our_node_id as a destination."),
                 panic |-> FALSE]
           ELSE FillFirstHopTargets(hops, k + 1,
                  [x \in (DOMAIN map) \cup {chan.remote_network_id} |->
                     IF x = chan.remote_network_id
                     THEN [short_channel_id |-> Unwrap(chan.short_channel_id),
                           features |-> chan.counterparty_features,
                           outbound_capacity_msat |-> chan.outbound_capacity_msat]
                     ELSE map[x]])

\* The outcome of the loop: r = [map, err, panic]
FirstHopsFilled(r) ==
  /\ first_hop_targets' = r.map
  /\ IF r.panic THEN Return(Panic)
     ELSE IF IsSome(r.err) THEN Return(Err(Unwrap(r.err)))
     ELSE IF IsSome(first_hops) /\ DOMAIN r.map = {}
     THEN Return(Err("Cannot route when there are no outbound routes away from us"))
     ELSE pc' = "paths_collection" /\ UNCHANGED result

PrepareFirstHops ==
  /\ pc = "first_hops"
  /\ allow_mpp' = AllowMpp
  /\ FirstHopsFilled(IF IsSome(first_hops)
                     THEN FillFirstHopTargets(Unwrap(first_hops), 1, << >>)
                     ELSE [map |-> << >>, err |-> None, panic |-> FALSE])
  /\ UNCHANGED << inputs, bookkeeped_channels_liquidity_available_msat,
                  already_collected_value_msat, targets, dist, found_new_path,
                  payment_paths, drawn_routes, draw_i, iterations, reduced, popped >>

\* The directional info built from a last-hop hint.
HintDirectionalInfo(hop) ==
  [enabled |-> TRUE,
   cltv_expiry_delta |-> hop.cltv_expiry_delta,
   htlc_minimum_msat |-> IF IsSome(hop.htlc_minimum_msat)
                         THEN Unwrap(hop.htlc_minimum_msat) ELSE 0,
   htlc_maximum_msat |-> hop.htlc_maximum_msat,
   fees |-> hop.fees]

\* Is the hint's source a node the search can continue from?
HaveHopSrcInGraph(hop) ==
  \/ hop.src_node_id \in DOMAIN first_hop_targets
  \/ hop.src_node_id \in DOMAIN network.nodes

\* add_entry! for the hinted channel from the hint's source to the payee.
HintEntry(s, hop) ==
  IF HaveHopSrcInGraph(hop)
  THEN add_entry(s, hop.short_channel_id, hop.src_node_id, payee,
                 HintDirectionalInfo(hop), None, EmptyFeatures, 0,
                 recommended_value_msat)
  ELSE s

\* The body of the loop over last_hops, for one hint.
AddLastHopEntries(s, hop) ==
  HintEntry(IF hop.src_node_id \in DOMAIN first_hop_targets
            THEN FirstHopEntry(s, hop.src_node_id, 0, recommended_value_msat)
            ELSE s,
            hop)

RECURSIVE AddAllLastHops(_, _)
AddAllLastHops(s, k) ==
  IF k > Len(last_hops) THEN s
  ELSE AddAllLastHops(AddLastHopEntries(s, last_hops[k]), k + 1)

\* The payee as a target, if the payee is in the graph.
AddPayeeEntries(s) ==
  IF payee \in DOMAIN network.nodes
  THEN add_entries_to_cheapest_to_target_node(s, network.nodes[payee], payee, 0,
                                              recommended_value_msat)
  ELSE s

\* The targets the search starts from: the head of 'paths_collection.
SeedTargets(book) ==
  AddAllLastHops(
    AddPayeeEntries(
      AddFirstHopEntry([book |-> book, dist |-> << >>, targets |-> << >>,
                        panic |-> FALSE],
                       payee, 0, recommended_value_msat)),
    1)

\* The search state s becomes the state of the search, which goes on at next_pc.
Searched(s, next_pc) ==
  /\ bookkeeped_channels_liquidity_available_msat' = s.book
  /\ dist' = s.dist
  /\ targets' = s.targets
  /\ IF s.panic THEN Return(Panic)
     ELSE pc' = next_pc /\ UNCHANGED result

StartPathSearch ==
  /\ pc = "paths_collection"
  /\ Searched(SeedTargets(bookkeeped_channels_liquidity_available_msat),
              "path_construction")
  /\ found_new_path' = FALSE
  /\ iterations' = iterations + 1
  /\ popped' = << >>
  /\ UNCHANGED << inputs, allow_mpp, first_hop_targets, already_collected_value_msat,
                  payment_paths, drawn_routes, draw_i, reduced >>

\* The inbound channels of a popped node are relaxed, if the node is in the graph.
Expand(s, node) ==
  IF node.pubkey \in DOMAIN network.nodes
  THEN add_entries_to_cheapest_to_target_node(
         s, network.nodes[node.pubkey], node.pubkey,
         node.lowest_fee_to_node, node.value_contribution_msat)
  ELSE s

\* A node other than the payer is popped: its inbound channels are relaxed.
ExpandNode ==
  /\ pc = "path_construction"
  /\ \E i \in PopCandidates(targets) :
       /\ targets[i].pubkey # our_node_id
       /\ popped' = Append(popped, targets[i].pubkey)
       /\ Searched(Expand([book |-> bookkeeped_channels_liquidity_available_msat,
                           dist |-> dist, targets |-> RemoveAt(targets, i),
                           panic |-> FALSE],
                          targets[i]),
                   "path_construction")
  /\ UNCHANGED << inputs, allow_mpp, first_hop_targets, already_collected_value_msat,
                  found_new_path, payment_paths, drawn_routes, draw_i, iterations,
                  reduced >>

\* The path p is booked: b = [book, ok, panic] is the outcome of the loop over its
\* hops, collected the new already_collected_value_msat.
BookPath(p, b, collected) ==
  /\ bookkeeped_channels_liquidity_available_msat' = b.book
  /\ IF b.panic \/ (b.ok /\ ~IsSome(collected))
     THEN /\ Return(Panic)
          /\ UNCHANGED << already_collected_value_msat, payment_paths,
                          found_new_path >>
     ELSE /\ pc' = "collected"
          /\ UNCHANGED result
          /\ IF b.ok
             THEN /\ already_collected_value_msat' = Unwrap(collected)
                  /\ payment_paths' = Append(payment_paths, p.hops)
                  /\ found_new_path' = TRUE
             ELSE UNCHANGED << already_collected_value_msat, payment_paths,
                               found_new_path >>

\* p = [hops, dist, panic] is the path walked and recomputed.
CollectPath(p, value_contribution_msat) ==
  /\ dist' = p.dist
  /\ IF p.panic
     THEN /\ Return(Panic)
          /\ UNCHANGED << bookkeeped_channels_liquidity_available_msat,
                          already_collected_value_msat, payment_paths,
                          found_new_path >>
     ELSE BookPath(p,
                   SpendLiquidity(bookkeeped_channels_liquidity_available_msat,
                                  p.hops, 1, value_contribution_msat),
                   checked_add(already_collected_value_msat,
                               value_contribution_msat))

\* The payer is popped: the path is walked, rebalanced and booked.
ConstructPath ==
  /\ pc = "path_construction"
  /\ \E i \in PopCandidates(targets) :
       /\ targets[i].pubkey = our_node_id
       /\ targets' = RemoveAt(targets, i)
       /\ popped' = Append(popped, targets[i].pubkey)
       /\ CollectPath(BuildPath(targets[i].value_contribution_msat),
                      targets[i].value_contribution_msat)
  /\ UNCHANGED << inputs, allow_mpp, first_hop_targets, drawn_routes, draw_i,
                  iterations, reduced >>

\* targets.pop() returns None: the search ends without a path.
TargetsExhausted ==
  /\ pc = "path_construction"
  /\ targets = << >>
  /\ pc' = "collected"
  /\ UNCHANGED << inputs, locals, result >>

\* A variant that goes on collecting although MPP is not allowed.
CollectionStopsWithoutMppCheck ==
  \/ already_collected_value_msat >= recommended_value_msat
  \/ ~found_new_path

\* A variant that goes on collecting whatever value has been collected.
CollectionStopsWithoutValueCheck ==
  \/ ~allow_mpp
  \/ ~found_new_path

\* A variant that goes on collecting until the recommended value is reached.
CollectionStopsOnlyAtValue ==
  already_collected_value_msat >= recommended_value_msat

\* Does 'paths_collection stop after this search?
CollectionStops ==
  \/ ~allow_mpp
  \/ already_collected_value_msat >= recommended_value_msat
  \/ ~found_new_path

EndPathSearch ==
  /\ pc = "collected"
  /\ pc' = IF CollectionStops THEN "step4" ELSE "paths_collection"
  /\ UNCHANGED << inputs, locals, result >>

\* Step 4: the outcome of the collection.
CollectionError ==
  IF Len(payment_paths) = 0
  THEN Some("Failed to find a path to the given destination")
  ELSE IF already_collected_value_msat < final_value_msat
  THEN Some("Failed to find a sufficient route to the given destination")
  ELSE None

SelectPaths ==
  /\ pc = "step4"
  /\ IF IsSome(CollectionError)
     THEN Return(Err(Unwrap(CollectionError))) /\ UNCHANGED payment_paths
     ELSE /\ payment_paths' = Truncate(SortPathsByTotalFee(payment_paths))
          /\ pc' = "draw"
          /\ UNCHANGED result
  /\ UNCHANGED << inputs, allow_mpp, first_hop_targets,
                  bookkeeped_channels_liquidity_available_msat,
                  already_collected_value_msat, targets, dist, found_new_path,
                  drawn_routes, draw_i, iterations, reduced, popped >>

\* c = [route, reduced, panic] is the route composed in this turn.
Drawn(c) ==
  /\ drawn_routes' = Append(drawn_routes, c.route)
  /\ reduced' = Append(reduced, c.reduced)
  /\ IF c.panic THEN Return(Panic) ELSE UNCHANGED << pc, result >>

\* One turn of the loop that draws routes (steps 5 to 7), for i = draw_i.
DrawRoute ==
  /\ pc = "draw"
  /\ draw_i < Len(payment_paths)
  /\ Drawn(Compose(Rotation(payment_paths, draw_i), 1, << >>, 0))
  /\ draw_i' = draw_i + 1
  /\ UNCHANGED << inputs, allow_mpp, first_hop_targets,
                  bookkeeped_channels_liquidity_available_msat,
                  already_collected_value_msat, targets, dist, found_new_path,
                  payment_paths, iterations, popped >>

\* Step 8: the cheapest drawn route is returned.
SelectRoute ==
  /\ pc = "draw"
  /\ draw_i = Len(payment_paths)
  /\ Return(Ok(SelectedPaths(SortRoutesByTotalFee(drawn_routes)[1])))
  /\ UNCHANGED << inputs, locals >>

----------------------------------------------------------------------------
(* Inputs: network graphs, first hops and last-hop hints                   *)

Fees(base, prop) == [base_msat |-> base, proportional_millionths |-> prop]

\* DirectionalChannelInfo
Dir(min, max, fees, cltv) ==
  [enabled |-> TRUE, cltv_expiry_delta |-> cltv, htlc_minimum_msat |-> min,
   htlc_maximum_msat |-> max, fees |-> fees]

\* ChannelInfo between node_one < node_two
Chan(a, b, capacity_sats, one_to_two, two_to_one) ==
  [node_one |-> a, node_two |-> b, features |-> EmptyFeatures,
   capacity_sats |-> capacity_sats, one_to_two |-> one_to_two,
   two_to_one |-> two_to_one]

RECURSIVE SortedSeq(_)
SortedSeq(S) ==
  IF S = {} THEN << >>
  ELSE LET m == CHOOSE x \in S : \A y \in S : x <= y
       IN  << m >> \o SortedSeq(S \ {m})

\* The directional infos of the channels of `chans` that lead into node n.
InboundDirs(chans, n) ==
  { Unwrap(chans[c].one_to_two) :
      c \in { c \in DOMAIN chans :
                chans[c].node_two = n /\ IsSome(chans[c].one_to_two) } }
  \cup
  { Unwrap(chans[c].two_to_one) :
      c \in { c \in DOMAIN chans :
                chans[c].node_one = n /\ IsSome(chans[c].two_to_one) } }

MinOf(S) == CHOOSE x \in S : \A y \in S : x <= y

\* NodeInfo::lowest_inbound_channel_fees as the graph maintains it: the lowest
\* base and the lowest proportional fee among the updates of inbound directions.
LowestInboundFees(chans, n) ==
  LET ds == InboundDirs(chans, n)
  IN  IF ds = {} THEN None
      ELSE Some(Fees(MinOf({ d.fees.base_msat : d \in ds }),
                     MinOf({ d.fees.proportional_millionths : d \in ds })))

\* A NetworkGraph: channels as given, a node for every channel end, announcements
\* as given (ann: node -> Option of features).
Graph(chans, ann) ==
  LET ns == { chans[c].node_one : c \in DOMAIN chans }
            \cup { chans[c].node_two : c \in DOMAIN chans }
            \cup { n \in DOMAIN ann : IsSome(ann[n]) }
  IN  [channels |-> chans,
       nodes |-> [n \in ns |->
          [channels |-> SortedSeq({ c \in DOMAIN chans :
                                      n \in {chans[c].node_one, chans[c].node_two} }),
           lowest_inbound_channel_fees |-> LowestInboundFees(chans, n),
           announcement_info |->
              IF n \in DOMAIN ann /\ IsSome(ann[n])
              THEN Some([features |-> Unwrap(ann[n])]) ELSE None]]]


\* The largest payment amount tried on the small graphs.
MaxFinalValue == 3
\* The largest number of last-hop hints passed in one call.
MaxHints == 1

\* Channel profiles: both directions of a channel carry the profile's parameters.
Profile(cap, min, max, fees, unknown, on) ==
  [cap |-> cap, min |-> min, max |-> max, fees |-> fees, unknown |-> unknown,
   on |-> on]

Dflt == Profile(None, 0, None, Fees(0, 0), FALSE, "both")
Tight == Profile(None, 0, Some(4), Fees(0, 0), FALSE, "both")
PropMin == Profile(None, 2, Some(3), Fees(0, 1000000), FALSE, "both")
Toll == Profile(None, 2, None, Fees(1, 0), FALSE, "both")
Fee1 == Profile(None, 0, None, Fees(1, 0), FALSE, "both")
MinOnly == Profile(None, 2, None, Fees(0, 0), FALSE, "both")
Unk == Profile(None, 0, None, Fees(0, 0), TRUE, "both")
Off == Profile(None, 0, None, Fees(0, 0), FALSE, "disabled")
Back == Profile(None, 0, None, Fees(0, 0), FALSE, "backward")
Narrow == Profile(None, 0, Some(2), Fees(0, 0), FALSE, "both")
Absent == Profile(None, 0, None, Fees(0, 0), FALSE, "absent")

\* The channel of a slot: short channel id c between nodes a < b.  The payer is
\* node 1 and the payee node 4, so one_to_two is the direction towards the payee.
SlotChan(c, a, b, pr) ==
  [node_one |-> a, node_two |-> b,
   features |-> [unknown |-> pr.unknown, mpp |-> FALSE],
   capacity_sats |-> pr.cap,
   one_to_two |->
      IF pr.on = "backward" THEN None
      ELSE Some([Dir(pr.min, pr.max, pr.fees, 2 * c) EXCEPT
                   !.enabled = (pr.on # "disabled")]),
   two_to_one |-> Some(Dir(pr.min, pr.max, pr.fees, 2 * c + 1))]

SlotEnds == << <<1, 2>>, <<1, 2>>, <<2, 4>>, <<1, 3>>, <<3, 4>>, <<2, 3>> >>

\* The channels of a graph: slots -> profile, "absent" slots left out.
Channels(choice) ==
  [c \in { c \in DOMAIN choice : choice[c].on # "absent" } |->
     SlotChan(c, SlotEnds[c][1], SlotEnds[c][2], choice[c])]

SlotChoices ==
  { << c1, c2, c3, c4, c5, c6 >> :
      c1 \in {Absent, Dflt, Tight},
      c2 \in {Absent, Dflt},
      c3 \in {Absent, Dflt, PropMin, Toll},
      c4 \in {Absent, Dflt, Unk, Back},
      c5 \in {Dflt, MinOnly, Off},
      c6 \in {Absent, Dflt, Fee1} }

\* Graphs in which node 3 announces features that require unknown bits.
UnknownNodeChoices ==
  { << c1, Absent, c3, c4, c5, c6 >> :
      c1 \in {Absent, Dflt},
      c3 \in {Absent, Dflt},
      c4 \in {Dflt, Unk},
      c5 \in {Dflt, Off},
      c6 \in {Absent, Dflt} }

\* Graphs in which the payee, node 4, has announced its features.
AnnouncedPayeeChoices ==
  { << c1, Absent, c3, Dflt, Dflt, Absent >> :
      c1 \in {Dflt, Tight, MinOnly}, c3 \in {Dflt, PropMin} }

UnknownFeatures == [unknown |-> TRUE, mpp |-> FALSE]
MppFeatures == [unknown |-> FALSE, mpp |-> TRUE]
NoAnnouncements == << >>

Input(payer, net, dest, features, first, last, value, cltv) ==
  [our_node_id |-> payer, network |-> net, payee |-> dest,
   payee_features |-> features, first_hops |-> first, last_hops |-> last,
   final_value_msat |-> value, final_cltv |-> cltv]

\* Payments over announced channels only.
GraphInputs ==
  { Input(1, Graph(Channels(ch), NoAnnouncements), 4, f, None, << >>, v, 42) :
      ch \in SlotChoices, f \in {None, Some(MppFeatures)}, v \in 1..MaxFinalValue }
  \cup
  { Input(1, Graph(Channels(ch), (3 :> Some(UnknownFeatures))), 4, f, None, << >>,
          v, 42) :
      ch \in UnknownNodeChoices, f \in {None, Some(MppFeatures)},
      v \in 1..MaxFinalValue }
  \cup
  { Input(1, Graph(Channels(ch), (4 :> Some(a))), 4, f, None, << >>, v, 42) :
      ch \in AnnouncedPayeeChoices, a \in {EmptyFeatures, MppFeatures},
      f \in {None, Some(EmptyFeatures), Some(MppFeatures)},
      v \in 1..MaxFinalValue }

\* ChannelDetails
FirstHop(scid, remote, features, outbound) ==
  [short_channel_id |-> scid, remote_network_id |-> remote,
   counterparty_features |-> features, outbound_capacity_msat |-> outbound]

FirstHopPool ==
  { FirstHop(Some(41), 2, EmptyFeatures, 3000),
    FirstHop(Some(42), 2, EmptyFeatures, 2999),
    FirstHop(Some(43), 3, UnknownFeatures, 1000),
    FirstHop(Some(44), 4, MppFeatures, 999) }

SeqsUpTo(S, n) == UNION { [1..k -> S] : k \in 0..n }

FirstHopChoices ==
  { << c1, Absent, c3, Absent, c5, c6 >> :
      c1 \in {Absent, Dflt},
      c3 \in {Dflt, Toll},
      c5 \in {Absent, Dflt},
      c6 \in {Absent, Dflt} }

\* Payments with the payer's channels given by the caller.
FirstHopInputs ==
  { Input(1, Graph(Channels(ch), (3 :> a)), 4, f, Some(fh), << >>, v, 42) :
      ch \in FirstHopChoices, a \in {None, Some(UnknownFeatures)},
      f \in {None, Some(MppFeatures)},
      fh \in { q \in SeqsUpTo(FirstHopPool, 2) : Len(q) > 0 },
      v \in {1, MaxFinalValue, 1000, 1001} }

\* Payments over two channels of the payer to the same counterparty, node 2, given in
\* first_hops in either order, and a wide channel from node 2 to the payee.
SameCounterpartyInputs ==
  { Input(1, Graph(Channels(<< Absent, Absent, Dflt, Absent, Absent, Absent >>),
                   NoAnnouncements),
          4, f, Some(fh), << >>, v, 42) :
      f \in {None, Some(MppFeatures)},
      fh \in { << FirstHop(Some(41), 2, EmptyFeatures, 3000),
                  FirstHop(Some(42), 2, EmptyFeatures, 2999) >>,
               << FirstHop(Some(42), 2, EmptyFeatures, 2999),
                  FirstHop(Some(41), 2, EmptyFeatures, 3000) >> },
      v \in {2000, 3000, 4000, 5000} }

\* RouteHint
Hint(src, scid, fees, cltv, min, max) ==
  [src_node_id |-> src, short_channel_id |-> scid, fees |-> fees,
   cltv_expiry_delta |-> cltv, htlc_minimum_msat |-> min, htlc_maximum_msat |-> max]

HintPool ==
  { Hint(2, 81, Fees(1, 0), 18, None, Some(2)),
    Hint(3, 82, Fees(0, 0), 28, Some(2), None),
    Hint(1, 83, Fees(0, 0), 38, None, None),
    Hint(6, 84, Fees(0, 0), 48, None, None),
    Hint(5, 85, Fees(0, 0), 58, None, None) }

HintChoices ==
  { << Dflt, Absent, c3, c4, Absent, Absent >> :
      c3 \in {Absent, Dflt}, c4 \in {Absent, Dflt} }

\* Payments to a payee reached over last-hop hints; node 5 is not in the graph.
HintInputs ==
  { Input(1, Graph(Channels(ch), NoAnnouncements), dest, f, first, lh, v, 42) :
      ch \in HintChoices, dest \in {4, 5}, f \in {None, Some(MppFeatures)},
      first \in {None, Some(<< FirstHop(Some(41), 2, EmptyFeatures, 3000) >>),
                 Some(<< FirstHop(Some(43), 3, EmptyFeatures, 1000) >>)},
      lh \in SeqsUpTo(HintPool, MaxHints), v \in 1..MaxFinalValue }

\* Calls with invalid arguments.
InvalidInputs ==
  { Input(1, Graph(Channels(<< Dflt, Absent, Dflt, Absent, Absent, Absent >>),
                   NoAnnouncements),
          dest, None, first, lh, v, 42) :
      dest \in {1, 4}, v \in {0, 1, MAX_VALUE_MSAT + 1},
      lh \in { << >>, << Hint(4, 81, Fees(0, 0), 18, None, None) >> },
      first \in { None, Some(<< >>),
                  Some(<< FirstHop(Some(41), 1, EmptyFeatures, 3000) >>),
                  Some(<< FirstHop(None, 2, EmptyFeatures, 3000) >>),
                  Some(<< FirstHop(Some(41), 2, EmptyFeatures, 3000),
                          FirstHop(Some(42), 1, EmptyFeatures, 3000) >>),
                  Some(<< FirstHop(None, 2, EmptyFeatures, 3000),
                          FirstHop(Some(42), 1, EmptyFeatures, 3000) >>),
                  Some(<< FirstHop(Some(41), 1, EmptyFeatures, 3000),
                          FirstHop(None, 2, EmptyFeatures, 3000) >>) } }

\* Payments, from node 1 to node 4 or back, over a graph whose channel 6, between
\* the nodes 2 and 3, advertises another htlc_maximum_msat from 2 to 3 (m[1]) than
\* from 3 to 2 (m[2]), and in which node 2 may have a channel 7 to itself.
AsymmetricInputs ==
  { Input(payer,
          Graph((6 :> Chan(2, 3, None, Some(Dir(0, m[1], Fees(0, 0), 12)),
                           Some(Dir(0, m[2], Fees(0, 0), 13))))
                @@ (IF loop
                    THEN (7 :> Chan(2, 2, None, Some(Dir(0, None, Fees(0, 0), 14)),
                                    Some(Dir(0, None, Fees(0, 0), 15))))
                    ELSE << >>)
                @@ Channels(<< c1, Absent, c3, c4, Dflt, Absent >>),
                NoAnnouncements),
          5 - payer, f, None, << >>, v, 42) :
      payer \in {1, 4},
      m \in { << Some(2), None >>, << None, Some(2) >>, << Some(2), Some(4) >> },
      loop \in BOOLEAN,
      c1 \in {Dflt, MinOnly}, c3 \in {Absent, Dflt, MinOnly}, c4 \in {Absent, Dflt},
      f \in {None, Some(MppFeatures)}, v \in 1..MaxFinalValue }

\* Payments over one or two channel-disjoint paths, 1-2-4 and 1-3-4, of channels
\* without fees and htlc minimums whose capacity_sats and htlc_maximum_msat are
\* known or not, of amounts around the capacity of the paths.
CapacityInputs ==
  LET Capped == Profile(Some(1), 0, None, Fees(0, 0), FALSE, "both")
      CappedMax == Profile(Some(1), 0, Some(2), Fees(0, 0), FALSE, "both")
      CapBelowMax == Profile(Some(1), 0, Some(2000), Fees(0, 0), FALSE, "both")
      NarrowProp == Profile(None, 0, Some(2), Fees(0, 1000000), FALSE, "both")
  IN  { Input(1, Graph(Channels(<< c1, Absent, c3, c45[1], c45[2], Absent >>),
                       NoAnnouncements),
              4, f, None, << >>, v, 42) :
          c1 \in {Dflt, Capped},
          c3 \in {Dflt, Narrow, CappedMax, CapBelowMax, NarrowProp},
          c45 \in { << Absent, Absent >>, << Dflt, Narrow >>, << Dflt, Capped >>,
                    << Capped, Dflt >> },
          f \in {None, Some(MppFeatures)},
          v \in (1..MaxFinalValue) \cup {1000, 1001, 1002, 1003, 2000, 2001} }

\* Payments large enough for the fee of a channel of the highest fees to overflow:
\* the fee of such a channel over 3 * 20000 msat does, and over 3 * 10000 msat the
\* fee does not but the estimated fee of the previous hop does.
OverflowInputs ==
  LET Greedy == Profile(None, 0, None, Fees(U32_MAX, U32_MAX), FALSE, "both")
  IN  { Input(1, Graph(Channels(<< c1, Absent, c3, c4, c5, Absent >>),
                       NoAnnouncements),
              4, f, None, << >>, v, 42) :
          c1 \in {Dflt, Greedy}, c3 \in {Dflt, Greedy}, c4 \in {Absent, Dflt},
          c5 \in {Absent, Dflt, Greedy}, f \in {None, Some(MppFeatures)},
          v \in {1, 10000, 20000} }

\* The number of 1 msat channels between the payer and the payee in ParallelInputs.
MaxParallel == 20

\* Payments over many parallel channels of 1 msat from the payer to the payee, after
\* `wide` channels of 2 msat.
ParallelInputs ==
  { Input(1,
          Graph([c \in 11..(10 + wide + MaxParallel) |->
                   Chan(1, 4, None,
                        Some(Dir(0, Some(IF c <= 10 + wide THEN 2 ELSE 1), Fees(0, 0), 5)),
                        Some(Dir(0, Some(IF c <= 10 + wide THEN 2 ELSE 1), Fees(0, 0), 6)))],
                NoAnnouncements),
          4, f, None, << >>, v, 42) :
      wide \in 0..2, f \in {None, Some(MppFeatures)}, v \in {1, 8} }

\* The arguments of the call.
Call(in) ==
  /\ our_node_id = in.our_node_id
  /\ network = in.network
  /\ payee = in.payee
  /\ payee_features = in.payee_features
  /\ first_hops = in.first_hops
  /\ last_hops = in.last_hops
  /\ final_value_msat = in.final_value_msat
  /\ final_cltv = in.final_cltv

\* The entry of the first call of get_route.
Entry ==
  /\ calls = 1
  /\ earlier_result = NoResult
  /\ pc = "check_inputs"
  /\ allow_mpp = FALSE
  /\ first_hop_targets = << >>
  /\ bookkeeped_channels_liquidity_available_msat = << >>
  /\ already_collected_value_msat = 0
  /\ targets = << >>
  /\ dist = << >>
  /\ found_new_path = FALSE
  /\ payment_paths = << >>
  /\ drawn_routes = << >>
  /\ draw_i = 0
  /\ iterations = 0
  /\ reduced = << >>
  /\ popped = << >>
  /\ result = NoResult

Init ==
  /\ \/ \E in \in GraphInputs : Call(in)
     \/ \E in \in FirstHopInputs : Call(in)
     \/ \E in \in HintInputs : Call(in)
     \/ \E in \in InvalidInputs : Call(in)
     \/ \E in \in AsymmetricInputs : Call(in)
     \/ \E in \in CapacityInputs : Call(in)
     \/ \E in \in ParallelInputs : Call(in)
     \/ \E in \in OverflowInputs : Call(in)
     \/ \E in \in SameCounterpartyInputs : Call(in)
  /\ Entry

Next ==
  \/ CheckInputs
  \/ PrepareFirstHops
  \/ StartPathSearch
  \/ ExpandNode
  \/ ConstructPath
  \/ TargetsExhausted
  \/ EndPathSearch
  \/ SelectPaths
  \/ DrawRoute
  \/ SelectRoute

Spec == Init /\ [][Next]_vars

----------------------------------------------------------------------------
(* Two calls that differ in the fees of the payer's channels               *)

\* The graph channels with a direction that leaves the payer
PayerChannels ==
  { c \in DOMAIN network.channels :
      \/ network.channels[c].node_one = our_node_id
           /\ IsSome(network.channels[c].one_to_two)
      \/ network.channels[c].node_two = our_node_id
           /\ IsSome(network.channels[c].two_to_one) }

\* The fees a channel of the payer is updated to
UpdatedFees == { Fees(1, 0), Fees(0, 1000000) }

\* The graph after an update of the fees of the direction of c that leaves the payer
UpdateFees(c, fees) ==
  IF network.channels[c].node_one = our_node_id
  THEN [network EXCEPT !.channels[c].one_to_two = Some([Unwrap(@) EXCEPT !.fees = fees])]
  ELSE [network EXCEPT !.channels[c].two_to_one = Some([Unwrap(@) EXCEPT !.fees = fees])]

\* get_route has returned and is called again with the same arguments, but for the
\* fees of one channel in the direction that leaves the payer.
CallAgain ==
  /\ pc = "done"
  /\ calls = 1
  /\ \E c \in PayerChannels, fees \in UpdatedFees : network' = UpdateFees(c, fees)
  /\ calls' = 2
  /\ earlier_result' = result
  /\ pc' = "check_inputs"
  /\ allow_mpp' = FALSE
  /\ first_hop_targets' = << >>
  /\ bookkeeped_channels_liquidity_available_msat' = << >>
  /\ already_collected_value_msat' = 0
  /\ targets' = << >>
  /\ dist' = << >>
  /\ found_new_path' = FALSE
  /\ payment_paths' = << >>
  /\ drawn_routes' = << >>
  /\ draw_i' = 0
  /\ iterations' = 0
  /\ reduced' = << >>
  /\ popped' = << >>
  /\ result' = NoResult
  /\ UNCHANGED << our_node_id, payee, payee_features, first_hops, last_hops,
                  final_value_msat, final_cltv >>

PayerFeeChoices ==
  { << c1, c2, c3, c4, c5, Absent >> :
      c1 \in {Dflt, Tight},
      c2 \in {Absent, Dflt},
      c3 \in {Dflt, PropMin, Toll, Narrow},
      c4 \in {Absent, Dflt},
      c5 \in {Dflt, MinOnly, Narrow} }

\* Payments over announced channels, the payer's channels free of charge.
PayerFeeInputs ==
  { Input(1, Graph(Channels(ch), NoAnnouncements), 4, f, None, << >>, v, 42) :
      ch \in PayerFeeChoices, f \in {None, Some(MppFeatures)},
      v \in 1..MaxFinalValue }

InitTwoCalls ==
  /\ \E in \in PayerFeeInputs : Call(in)
  /\ Entry

NextTwoCalls ==
  \/ CheckInputs
  \/ PrepareFirstHops
  \/ StartPathSearch
  \/ ExpandNode
  \/ ConstructPath
  \/ TargetsExhausted
  \/ EndPathSearch
  \/ SelectPaths
  \/ DrawRoute
  \/ SelectRoute
  \/ CallAgain

SpecTwoCalls == InitTwoCalls /\ [][NextTwoCalls]_vars

----------------------------------------------------------------------------
(* Observations of a returned Route                                        *)

\* get_route has returned Ok(route)
Returned == pc = "done" /\ result.tag = "Ok"

\* The node a hop leaves: the payer for the first hop, else the previous hop's pubkey.
HopSource(path, h) == IF h = 1 THEN our_node_id ELSE path[h - 1].pubkey

\* Hop h of path goes over a channel the caller gave in first_hops.
IsFirstHopChannel(path, h) ==
  /\ h = 1
  /\ IsSome(first_hops)
  /\ \E i \in 1..Len(Unwrap(first_hops)) :
       /\ Unwrap(first_hops)[i].short_channel_id = Some(path[h].short_channel_id)
       /\ Unwrap(first_hops)[i].remote_network_id = path[h].pubkey

\* The last-hop hints hop h of path goes over.
HintsOf(path, h) ==
  { i \in 1..Len(last_hops) :
      /\ last_hops[i].short_channel_id = path[h].short_channel_id
      /\ last_hops[i].src_node_id = HopSource(path, h)
      /\ path[h].pubkey = payee }

IsHintChannel(path, h) == HintsOf(path, h) # {}

\* Hop h of path goes over a channel of the network graph between its two ends.
IsGraphChannel(path, h) ==
  /\ ~IsFirstHopChannel(path, h)
  /\ ~IsHintChannel(path, h)
  /\ path[h].short_channel_id \in DOMAIN network.channels
  /\ { network.channels[path[h].short_channel_id].node_one,
       network.channels[path[h].short_channel_id].node_two }
       = { HopSource(path, h), path[h].pubkey }

\* The direction of a graph channel that hop h uses: Option
GraphDirection(path, h) ==
  IF network.channels[path[h].short_channel_id].node_one = HopSource(path, h)
  THEN network.channels[path[h].short_channel_id].one_to_two
  ELSE network.channels[path[h].short_channel_id].two_to_one

\* htlc_minimum_msat of the channel direction hop h uses
HopHtlcMinimum(path, h) ==
  IF IsFirstHopChannel(path, h) THEN 0
  ELSE IF IsHintChannel(path, h)
  THEN HintDirectionalInfo(last_hops[CHOOSE i \in HintsOf(path, h) : TRUE])
         .htlc_minimum_msat
  ELSE IF IsGraphChannel(path, h) /\ IsSome(GraphDirection(path, h))
  THEN Unwrap(GraphDirection(path, h)).htlc_minimum_msat
  ELSE 0

\* The effective capacity of the channel hop h uses, in msat
HopCapacity(path, h) ==
  IF IsFirstHopChannel(path, h)
  THEN first_hop_targets[path[h].pubkey].outbound_capacity_msat
  ELSE IF IsHintChannel(path, h)
  THEN Unwrap(initial_liquidity_available_msat(
                HintDirectionalInfo(last_hops[CHOOSE i \in HintsOf(path, h) : TRUE]),
                None))
  ELSE IF IsGraphChannel(path, h) /\ IsSome(GraphDirection(path, h))
  THEN Unwrap(initial_liquidity_available_msat(
                Unwrap(GraphDirection(path, h)),
                network.channels[path[h].short_channel_id].capacity_sats))
  ELSE 0

\* The amount forwarded over hop h: the delivered amount and the fees of the hops
\* from h onward.
RECURSIVE Forwarded(_, _)
Forwarded(path, h) ==
  IF h > Len(path) THEN 0 ELSE path[h].fee_msat + Forwarded(path, h + 1)

\* The amount the last hop of a path delivers
Delivered(path) == path[Len(path)].fee_msat

RECURSIVE SumDelivered(_, _)
SumDelivered(paths, n) ==
  IF n = 0 THEN 0 ELSE SumDelivered(paths, n - 1) + Delivered(paths[n])

\* The hops of a route, as pairs << path index, hop index >>
HopsOf(paths) ==
  { ph \in (1..Len(paths)) \X (1..4) : ph[2] <= Len(paths[ph[1]]) }

\* The amount all the hops of a route forward over the channel scid
RECURSIVE SumForwarded(_, _, _)
SumForwarded(paths, hs, scid) ==
  IF hs = {} THEN 0
  ELSE LET ph == CHOOSE x \in hs : TRUE
       IN  (IF paths[ph[1]][ph[2]].short_channel_id = scid
            THEN Forwarded(paths[ph[1]], ph[2]) ELSE 0)
           + SumForwarded(paths, hs \ {ph}, scid)

\* Some returned path delivers exactly the htlc_minimum_msat of its last channel.
DeliversHtlcMinimum ==
  \E p \in 1..Len(result.paths) :
    Delivered(result.paths[p]) = HopHtlcMinimum(result.paths[p], Len(result.paths[p]))

----------------------------------------------------------------------------
(* Properties                                                              *)

C2_CapacityRespect ==
  Returned =>
    \A ph \in HopsOf(result.paths) :
      SumForwarded(result.paths, HopsOf(result.paths),
                   result.paths[ph[1]][ph[2]].short_channel_id)
        <= HopCapacity(result.paths[ph[1]], ph[2])

\* C3: every hop of a returned route forwards at least the htlc_minimum_msat of the
\* channel direction it uses.
C3_HtlcMinimumRespect ==
  Returned =>
    \A ph \in HopsOf(result.paths) :
      Forwarded(result.paths[ph[1]], ph[2])
        >= HopHtlcMinimum(result.paths[ph[1]], ph[2])

\* A returned route has a hop over a channel with a positive htlc_minimum_msat that
\* forwards exactly that minimum, in a route that step 7 reduced.
C3_Witness ==
  /\ Returned
  /\ \E i \in 1..Len(reduced) : IsSome(reduced[i])
  /\ \E ph \in HopsOf(result.paths) :
       /\ HopHtlcMinimum(result.paths[ph[1]], ph[2]) > 0
       /\ Forwarded(result.paths[ph[1]], ph[2])
            = HopHtlcMinimum(result.paths[ph[1]], ph[2])

\* C4: a returned route has a path, every path has a hop, and the last hop of every
\* path is to the payee.
C4_PathsEndAtPayee ==
  Returned =>
    /\ Len(result.paths) > 0
    /\ \A p \in 1..Len(result.paths) :
         /\ Len(result.paths[p]) > 0
         /\ result.paths[p][Len(result.paths[p])].pubkey = payee

\* A route of two paths is returned, one of them of three hops.
C4_Witness ==
  /\ Returned
  /\ Len(result.paths) = 2
  /\ \E p \in 1..Len(result.paths) : Len(result.paths[p]) = 3


\* The checks (1) to (4) of the input validation pass.
ValidArguments ==
  /\ payee # our_node_id
  /\ final_value_msat <= MAX_VALUE_MSAT
  /\ final_value_msat # 0
  /\ \A i \in 1..Len(last_hops) : last_hops[i].src_node_id # payee

\* Entry i of first_hops targets the payer.
TargetsPayer(i) == Unwrap(first_hops)[i].remote_network_id = our_node_id

\* The entries of first_hops up to entry i have a short_channel_id.
UsableUpTo(i) ==
  \A j \in 1..i : IsSome(Unwrap(first_hops)[j].short_channel_id)

\* The input validation is over.
Validated == pc \notin {"check_inputs", "first_hops"}

\* The errors of the checks (1) to (4) and (6), each returned when no earlier check
\* fails and before any search.
ArgumentErrors ==
  /\ payee = our_node_id
       => result = Err("Cannot generate a route to ourselves")
  /\ (payee # our_node_id /\ final_value_msat > MAX_VALUE_MSAT)
       => result = Err("Cannot generate a route of more value than all existing satoshis")
  /\ (payee # our_node_id /\ final_value_msat = 0)
       => result = Err("Cannot send a payment of 0 msat")
  /\ ( /\ payee # our_node_id
       /\ final_value_msat <= MAX_VALUE_MSAT
       /\ final_value_msat # 0
       /\ HintFromPayee )
       => result = Err("Last hop cannot have a payee as a source.")
  /\ (ValidArguments /\ first_hops = Some(<< >>))
       => result = Err("Cannot route when there are no outbound routes away from us")
  /\ result.tag = "Err" => result.action = "IgnoreError"
  /\ (~ValidArguments \/ first_hops = Some(<< >>)) => iterations = 0

\* C5 as stated: the checks (1) to (6) in this order, check (5) failing whenever
\* some entry of first_hops targets the payer.
C5_ValidationOrderAsStated ==
  Validated =>
    /\ ArgumentErrors
    /\ ( /\ ValidArguments
         /\ IsSome(first_hops)
         /\ \E i \in 1..Len(Unwrap(first_hops)) : TargetsPayer(i) )
         => /\ result = Err("First hop cannot have our_node_id as a destination.")
            /\ iterations = 0

\* C5: the checks (1) to (6) in this order, check (5) failing when some entry of
\* first_hops targets the payer and the entries up to it have a short_channel_id.
C5_ValidationOrder ==
  Validated =>
    /\ ArgumentErrors
    /\ ( /\ ValidArguments
         /\ IsSome(first_hops)
         /\ \E i \in 1..Len(Unwrap(first_hops)) : TargetsPayer(i) /\ UsableUpTo(i) )
         => /\ result = Err("First hop cannot have our_node_id as a destination.")
            /\ iterations = 0

\* A call with three invalid arguments has returned the error of the first check.
C5_Witness ==
  /\ pc = "done"
  /\ payee = our_node_id
  /\ final_value_msat = 0
  /\ IsSome(first_hops)
  /\ \E i \in 1..Len(Unwrap(first_hops)) : TargetsPayer(i)
  /\ result = Err("Cannot generate a route to ourselves")

\* C6: once the search has started, get_route ends with "Failed to find a path" if
\* no path was collected, with "Failed to find a sufficient route" if the collected
\* value is below final_value_msat, and with a Route otherwise.
C6_OutcomeAfterCollection ==
  (pc = "done" /\ iterations >= 1) =>
    IF Len(payment_paths) = 0
    THEN result = Err("Failed to find a path to the given destination")
    ELSE IF already_collected_value_msat < final_value_msat
    THEN result = Err("Failed to find a sufficient route to the given destination")
    ELSE result.tag = "Ok"

\* Neither payee_features nor the payee's announcement advertises basic MPP.
NoMppAdvertised ==
  /\ IsSome(payee_features) => ~Unwrap(payee_features).mpp
  /\ (payee \in DOMAIN network.nodes /\ IsSome(network.nodes[payee].announcement_info))
       => ~Unwrap(network.nodes[payee].announcement_info).features.mpp

\* C7: without MPP advertised, one search is run and a returned route has one path.
C7_MppGating ==
  NoMppAdvertised =>
    /\ iterations <= 1
    /\ (pc \in {"collected", "step4", "draw", "done"} /\ result.tag \in {"None", "Ok"})
         => iterations = 1
    /\ Returned => Len(result.paths) = 1

\* Without MPP advertised a route is returned whose only path was collected with
\* less than the recommended value, so that another search could have found more.
C7_Witness ==
  /\ NoMppAdvertised
  /\ Returned
  /\ Len(result.paths) = 1
  /\ already_collected_value_msat < recommended_value_msat

\* C8: with first_hops given, the first hop of every returned path goes over a
\* channel of first_hops.
C8_FirstHopOverride ==
  (Returned /\ IsSome(first_hops)) =>
    \A p \in 1..Len(result.paths) : IsFirstHopChannel(result.paths[p], 1)

\* fees of the channel direction hop h uses
HopFees(path, h) ==
  IF IsFirstHopChannel(path, h) THEN dummy_directional_info.fees
  ELSE IF IsHintChannel(path, h)
  THEN last_hops[CHOOSE i \in HintsOf(path, h) : TRUE].fees
  ELSE Unwrap(GraphDirection(path, h)).fees

Max(a, b) == IF a >= b THEN a ELSE b

\* The first hop of path pays what the second hop's channel charges, or the rest up
\* to the htlc_minimum_msat of the first channel: nothing for the first channel.
PaysNoFirstChannelFee(path) ==
  Len(path) >= 2 =>
    path[1].fee_msat =
      Max(Unwrap(compute_fees(Forwarded(path, 2), HopFees(path, 2))),
          HopHtlcMinimum(path, 1) - Forwarded(path, 2))

\* Two results are the same error, or routes of the same paths in any order.
SameOutcome(a, b) ==
  /\ a.tag = b.tag
  /\ a.err = b.err
  /\ Len(a.paths) = Len(b.paths)
  /\ \A x \in { a.paths[i] : i \in 1..Len(a.paths) }
                \cup { b.paths[i] : i \in 1..Len(b.paths) } :
       Cardinality({ i \in 1..Len(a.paths) : a.paths[i] = x })
         = Cardinality({ i \in 1..Len(b.paths) : b.paths[i] = x })

\* C9: a second call that differs from the first in the fees of a channel of the
\* payer only returns what the first call returned, and no returned path pays a fee
\* for its first channel.
C9_PayerFeesIgnored ==
  /\ (calls = 2 /\ pc = "done") => SameOutcome(result, earlier_result)
  /\ Returned => \A p \in 1..Len(result.paths) : PaysNoFirstChannelFee(result.paths[p])

\* C10: a hop of a returned path that goes over neither a first_hops channel nor a
\* last-hop hint goes over a graph channel without unknown feature bits, in a
\* direction that is present and enabled, to a node whose announcement, if any, has
\* no unknown feature bits.
C10_EligibleGraphEdges ==
  Returned =>
    \A ph \in HopsOf(result.paths) :
      LET path == result.paths[ph[1]]
          h == ph[2]
      IN  (~IsFirstHopChannel(path, h) /\ ~IsHintChannel(path, h)) =>
            /\ IsGraphChannel(path, h)
            /\ ~network.channels[path[h].short_channel_id].features.unknown
            /\ IsSome(GraphDirection(path, h))
            /\ Unwrap(GraphDirection(path, h)).enabled
            /\ IsSome(network.nodes[path[h].pubkey].announcement_info)
                 => ~Unwrap(network.nodes[path[h].pubkey].announcement_info)
                       .features.unknown

\* A route is returned although a node of the graph announces unknown feature bits
\* and the route has a hop over a graph channel.
C10_Witness ==
  /\ Returned
  /\ \E n \in DOMAIN network.nodes :
       /\ IsSome(network.nodes[n].announcement_info)
       /\ Unwrap(network.nodes[n].announcement_info).features.unknown
  /\ \E ph \in HopsOf(result.paths) : IsGraphChannel(result.paths[ph[1]], ph[2])

\* cltv_expiry_delta advertised for the channel direction hop h uses
HopCltv(path, h) ==
  IF IsFirstHopChannel(path, h) THEN dummy_directional_info.cltv_expiry_delta
  ELSE IF IsHintChannel(path, h)
  THEN last_hops[CHOOSE i \in HintsOf(path, h) : TRUE].cltv_expiry_delta
  ELSE Unwrap(GraphDirection(path, h)).cltv_expiry_delta

\* C11: in a returned path every hop but the last has the cltv_expiry_delta of the
\* channel direction the next hop uses, and the last hop has final_cltv.
C11_CltvAssignment ==
  Returned =>
    \A ph \in HopsOf(result.paths) :
      result.paths[ph[1]][ph[2]].cltv_expiry_delta =
        IF ph[2] = Len(result.paths[ph[1]]) THEN final_cltv
        ELSE HopCltv(result.paths[ph[1]], ph[2] + 1)

\* A route is returned whose value step 7 reduced and which has a path of two hops,
\* the first over a graph channel and the last over a last-hop hint.
C11_Witness ==
  /\ Returned
  /\ \E i \in 1..Len(reduced) : IsSome(reduced[i])
  /\ \E p \in 1..Len(result.paths) :
       /\ Len(result.paths[p]) = 2
       /\ IsGraphChannel(result.paths[p], 1)
       /\ IsHintChannel(result.paths[p], 2)

\* The fee the channel of the hop after h charges for the amount forwarded over it
SuccessorFee(path, h) ==
  Unwrap(compute_fees(Forwarded(path, h + 1), HopFees(path, h + 1)))

\* The hops of a route that are not the last of their path
NonTerminalHops(paths) ==
  { ph \in HopsOf(paths) : ph[2] < Len(paths[ph[1]]) }

\* C12 as stated: every hop of a returned path but the last has as fee_msat the fee
\* the next hop's channel charges for the amount forwarded over it.
C12_HopFeesAsStated ==
  Returned =>
    \A ph \in NonTerminalHops(result.paths) :
      result.paths[ph[1]][ph[2]].fee_msat = SuccessorFee(result.paths[ph[1]], ph[2])

\* C12: every hop of a returned path but the last has as fee_msat the fee the next
\* hop's channel charges for the amount forwarded over it, or, if that leaves the
\* hop's own channel below its htlc_minimum_msat, what is missing to that minimum;
\* the last hop's fee_msat, the amount delivered, is at least its channel's minimum.
C12_HopFees ==
  Returned =>
    /\ \A ph \in NonTerminalHops(result.paths) :
         result.paths[ph[1]][ph[2]].fee_msat =
           Max(SuccessorFee(result.paths[ph[1]], ph[2]),
               HopHtlcMinimum(result.paths[ph[1]], ph[2])
                 - Forwarded(result.paths[ph[1]], ph[2] + 1))
    /\ \A p \in 1..Len(result.paths) :
         Delivered(result.paths[p])
           >= HopHtlcMinimum(result.paths[p], Len(result.paths[p]))

\* A route whose value step 7 reduced is returned with a hop that is not the last of
\* its path and pays more than the fee of the next hop's channel.
C12_Witness ==
  /\ Returned
  /\ \E i \in 1..Len(reduced) : IsSome(reduced[i])
  /\ \E ph \in NonTerminalHops(result.paths) :
       result.paths[ph[1]][ph[2]].fee_msat > SuccessorFee(result.paths[ph[1]], ph[2])

\* The payee's announcement in the graph advertises basic MPP.
GraphAdvertisesMpp ==
  /\ payee \in DOMAIN network.nodes
  /\ IsSome(network.nodes[payee].announcement_info)
  /\ Unwrap(network.nodes[payee].announcement_info).features.mpp

\* allow_mpp has been computed.
MppDecided == pc \notin {"check_inputs", "first_hops"} /\ ~IsSome(InputError)

\* C13 as stated: allow_mpp is true exactly when the payee features given by the
\* caller or the payee's announcement in the graph advertise basic MPP.
C13_AllowMppAsStated ==
  MppDecided =>
    (allow_mpp <=> ( \/ IsSome(payee_features) /\ Unwrap(payee_features).mpp
                     \/ GraphAdvertisesMpp ))

\* C13: allow_mpp is the MPP bit of the payee features given by the caller if there
\* are any, and else the MPP bit of the payee's announcement in the graph, false
\* without an announcement.
C13_AllowMpp ==
  MppDecided =>
    (allow_mpp <=> IF IsSome(payee_features) THEN Unwrap(payee_features).mpp
                   ELSE GraphAdvertisesMpp)

\* A search has run without MPP for a caller whose payee features lack the MPP bit
\* that the payee's announcement has.
C13_Witness ==
  /\ iterations >= 1
  /\ IsSome(payee_features)
  /\ ~Unwrap(payee_features).mpp
  /\ GraphAdvertisesMpp
  /\ ~allow_mpp

\* The hops of a route over a graph channel whose two directions are both enabled
\* and advertise different htlc_maximum_msat values
AsymmetricHops(paths) ==
  { ph \in HopsOf(paths) :
      /\ IsGraphChannel(paths[ph[1]], ph[2])
      /\ DirectionUsable(network.channels[paths[ph[1]][ph[2]].short_channel_id].one_to_two)
      /\ DirectionUsable(network.channels[paths[ph[1]][ph[2]].short_channel_id].two_to_one)
      /\ Unwrap(network.channels[paths[ph[1]][ph[2]].short_channel_id].one_to_two)
             .htlc_maximum_msat
           # Unwrap(network.channels[paths[ph[1]][ph[2]].short_channel_id].two_to_one)
               .htlc_maximum_msat }

StatedLiquidity(cap, max) ==
  IF IsSome(cap) /\ IsSome(max) THEN Min(Unwrap(cap) * 1000, Unwrap(max))
  ELSE IF IsSome(cap) THEN Unwrap(cap) * 1000
  ELSE IF IsSome(max) THEN Unwrap(max)
  ELSE 250000000

\* The values stated for the liquidity of the channel scid when it is first relaxed:
\* as a first_hops channel, as a last-hop hint, as a graph channel in a direction.
StatedLiquidities(scid) ==
  { (first_hop_targets[n].outbound_capacity_msat \div 1000) * 1000 :
      n \in { n \in DOMAIN first_hop_targets :
                first_hop_targets[n].short_channel_id = scid } }
  \cup
  { StatedLiquidity(None, last_hops[i].htlc_maximum_msat) :
      i \in { i \in 1..Len(last_hops) : last_hops[i].short_channel_id = scid } }
  \cup
  ( IF scid \in DOMAIN network.channels
    THEN { StatedLiquidity(network.channels[scid].capacity_sats,
                           Unwrap(d).htlc_maximum_msat) :
             d \in { d \in { network.channels[scid].one_to_two,
                             network.channels[scid].two_to_one } : IsSome(d) } }
    ELSE {} )

\* The graph is the single path 1 -> 2 -> 4 over the channels 1 and 3, without fees
\* and htlc minimums, and the caller gives neither first hops nor last hops.
SinglePath ==
  /\ our_node_id = 1
  /\ payee = 4
  /\ first_hops = None
  /\ last_hops = << >>
  /\ DOMAIN network.channels = {1, 3}
  /\ \A c \in {1, 3} :
       /\ DirectionUsable(network.channels[c].one_to_two)
       /\ ChannelUsable(network.channels[c])
       /\ Unwrap(network.channels[c].one_to_two).htlc_minimum_msat = 0
       /\ Unwrap(network.channels[c].one_to_two).fees = Fees(0, 0)

\* The single path is 1 -> 3 -> 4 over one first_hops channel and channel 5.
SinglePathFromFirstHop ==
  /\ our_node_id = 1
  /\ payee = 4
  /\ IsSome(first_hops)
  /\ Len(Unwrap(first_hops)) = 1
  /\ Unwrap(first_hops)[1].remote_network_id = 3
  /\ IsSome(Unwrap(first_hops)[1].short_channel_id)
  /\ last_hops = << >>
  /\ 5 \in DOMAIN network.channels
  /\ 6 \notin DOMAIN network.channels
  /\ DirectionUsable(network.channels[5].one_to_two)
  /\ ChannelUsable(network.channels[5])
  /\ Unwrap(network.channels[5].one_to_two).htlc_minimum_msat = 0
  /\ Unwrap(network.channels[5].one_to_two).fees = Fees(0, 0)

\* The stated liquidity of the single path: the least over its channels
SinglePathLiquidity ==
  IF SinglePath
  THEN Min(StatedLiquidity(network.channels[1].capacity_sats,
                           Unwrap(network.channels[1].one_to_two).htlc_maximum_msat),
           StatedLiquidity(network.channels[3].capacity_sats,
                           Unwrap(network.channels[3].one_to_two).htlc_maximum_msat))
  ELSE Min((Unwrap(first_hops)[1].outbound_capacity_msat \div 1000) * 1000,
           StatedLiquidity(network.channels[5].capacity_sats,
                           Unwrap(network.channels[5].one_to_two).htlc_maximum_msat))

\* The liquidity of a channel entered into the book by this step is a stated one,
\* and the liquidity of a channel that is in the book does not grow.
LiquidityMemoized ==
  \A scid \in DOMAIN bookkeeped_channels_liquidity_available_msat' :
    IF scid \in DOMAIN bookkeeped_channels_liquidity_available_msat
    THEN bookkeeped_channels_liquidity_available_msat'[scid]
           <= bookkeeped_channels_liquidity_available_msat[scid]
    ELSE bookkeeped_channels_liquidity_available_msat'[scid] \in StatedLiquidities(scid)

\* Over a single path without fees, get_route called with valid arguments returns
\* one path of final_value_msat if that is at most the path's liquidity, and an
\* error if it is more.
SinglePathExact ==
  (pc = "done" /\ ValidArguments /\ (SinglePath \/ SinglePathFromFirstHop)) =>
    IF final_value_msat <= SinglePathLiquidity
    THEN /\ result.tag = "Ok"
         /\ Len(result.paths) = 1
         /\ Delivered(result.paths[1]) = final_value_msat
    ELSE result.tag = "Err"

\* C15: a channel's liquidity is first set to min(capacity_sats * 1000,
\* htlc_maximum_msat), to the one of them that is known, or to 250,000,000 msat, and
\* to floor(outbound_capacity_msat / 1000) * 1000 for a first_hops channel; it is
\* not derived again later; a single path without fees routes exactly this amount.
C15_InitialLiquidity == [][LiquidityMemoized]_vars /\ []SinglePathExact

\* get_route has failed over a single path for an amount one msat above the
\* liquidity of a channel with capacity_sats and htlc_maximum_msat both known.
C15_Witness ==
  /\ pc = "done"
  /\ SinglePath
  /\ IsSome(network.channels[3].capacity_sats)
  /\ IsSome(Unwrap(network.channels[3].one_to_two).htlc_maximum_msat)
  /\ final_value_msat = SinglePathLiquidity + 1
  /\ result.tag = "Err"

\* The graph is the two channel-disjoint paths 1 -> 2 -> 4 (channels 1 and 3) and
\* 1 -> 3 -> 4 (channels 4 and 5), without fees and htlc minimums, and the caller
\* gives neither first hops nor last hops.
TwoDisjointPaths ==
  /\ our_node_id = 1
  /\ payee = 4
  /\ first_hops = None
  /\ last_hops = << >>
  /\ DOMAIN network.channels = {1, 3, 4, 5}
  /\ \A c \in {1, 3, 4, 5} :
       /\ DirectionUsable(network.channels[c].one_to_two)
       /\ ChannelUsable(network.channels[c])
       /\ Unwrap(network.channels[c].one_to_two).htlc_minimum_msat = 0
       /\ Unwrap(network.channels[c].one_to_two).fees = Fees(0, 0)

\* The bottleneck capacity of the path over the channels a and b
Bottleneck(a, b) ==
  Min(StatedLiquidity(network.channels[a].capacity_sats,
                      Unwrap(network.channels[a].one_to_two).htlc_maximum_msat),
      StatedLiquidity(network.channels[b].capacity_sats,
                      Unwrap(network.channels[b].one_to_two).htlc_maximum_msat))

\* The bottleneck capacities of the disjoint paths, as a sequence
Bottlenecks ==
  IF TwoDisjointPaths THEN << Bottleneck(1, 3), Bottleneck(4, 5) >>
  ELSE << Bottleneck(1, 3) >>

SumBottlenecks == IF TwoDisjointPaths THEN Bottlenecks[1] + Bottlenecks[2]
                  ELSE Bottlenecks[1]

\* get_route has returned on a call with valid arguments and MPP allowed, for a
\* graph of channel-disjoint paths.
MppOverDisjointPaths ==
  /\ pc = "done"
  /\ ValidArguments
  /\ AllowMpp
  /\ (SinglePath \/ TwoDisjointPaths)

\* get_route has returned a route that delivers final_value_msat exactly.
DeliversExactly ==
  /\ result.tag = "Ok"
  /\ SumDelivered(result.paths, Len(result.paths)) = final_value_msat

\* C16 as stated: over channel-disjoint paths without fees, with MPP allowed,
\* get_route delivers final_value_msat exactly if and only if final_value_msat is
\* at most the sum of the bottleneck capacities of the paths.
C16_MppExactAsStated ==
  MppOverDisjointPaths =>
    IF final_value_msat <= SumBottlenecks THEN DeliversExactly
    ELSE result.tag = "Err"

\* C16: over channel-disjoint paths without fees, with MPP allowed, get_route
\* returns an error if final_value_msat is above the sum of the bottleneck
\* capacities, a route that delivers final_value_msat exactly if it succeeds, and
\* it succeeds if final_value_msat is at most that sum and every path's bottleneck
\* is at least the 5% of the recommended value, rounded up, asked of a path.
C16_MppExact ==
  MppOverDisjointPaths =>
    /\ (final_value_msat > SumBottlenecks) => result.tag = "Err"
    /\ result.tag \in {"Ok", "Err"}
    /\ (result.tag = "Ok") => DeliversExactly
    /\ ( /\ final_value_msat <= SumBottlenecks
         /\ \A i \in 1..Len(Bottlenecks) :
              Bottlenecks[i] >= (recommended_value_msat + 19) \div 20 )
         => DeliversExactly

\* A payment of the sum of the capacities of two disjoint paths has been routed
\* over both of them.
C16_Witness ==
  /\ MppOverDisjointPaths
  /\ TwoDisjointPaths
  /\ final_value_msat = SumBottlenecks
  /\ DeliversExactly
  /\ Len(result.paths) = 2

\* The paths the path builder has built: those collected and those of drawn routes
BuiltPaths ==
  { payment_paths[i] : i \in 1..Len(payment_paths) }
  \cup UNION { { drawn_routes[r][i] : i \in 1..Len(drawn_routes[r]) } :
               r \in 1..Len(drawn_routes) }

\* update_value_and_recompute_fees applied to a path with the value it carries
RecomputedAtValue(hops) ==
  update_value_and_recompute_fees(hops, get_value_msat(hops))

\* hops without the fees of the next hops that the path builder keeps for each hop
WithoutNextHopsFee(hops) ==
  [i \in 1..Len(hops) |-> [hops[i] EXCEPT !.next_hops_fee_msat = 0]]

\* C17 as stated: update_value_and_recompute_fees called with the value a built path
\* carries leaves the path as it is.
C17_RecomputeIdempotentAsStated ==
  \A hops \in BuiltPaths :
    /\ ~RecomputedAtValue(hops).panic
    /\ RecomputedAtValue(hops).hops = hops

\* C17: update_value_and_recompute_fees called with the value a built path carries
\* leaves every hop as it is but for next_hops_fee_msat, which does not grow, and
\* called once more with that value it leaves the path as it is.
C17_RecomputeIdempotent ==
  \A hops \in BuiltPaths :
    /\ ~RecomputedAtValue(hops).panic
    /\ WithoutNextHopsFee(RecomputedAtValue(hops).hops) = WithoutNextHopsFee(hops)
    /\ \A i \in 1..Len(hops) :
         RecomputedAtValue(hops).hops[i].next_hops_fee_msat
           <= hops[i].next_hops_fee_msat
    /\ RecomputedAtValue(RecomputedAtValue(hops).hops).hops
         = RecomputedAtValue(hops).hops

\* A path has been built whose last hop was raised to the htlc_minimum_msat of its
\* channel and which the recomputation with the value it carries changes.
C17_Witness ==
  \E hops \in BuiltPaths :
    /\ Len(hops) >= 2
    /\ get_value_msat(hops) = hops[Len(hops)].htlc_minimum_msat
    /\ RecomputedAtValue(hops).hops # hops

\* The search state of the call
SearchState ==
  [book |-> bookkeeped_channels_liquidity_available_msat, dist |-> dist,
   targets |-> targets, panic |-> FALSE]

\* The nodes of the call: those of the graph, the payer, the payee
KnownNodes == DOMAIN network.nodes \cup {our_node_id, payee}

\* The graph channels from a node to itself
SelfChannels ==
  { c \in DOMAIN network.channels :
      network.channels[c].node_one = network.channels[c].node_two }

\* C18: no returned path has two hops in a row to the same node or a first hop to
\* the payer, and add_entry leaves the search as it is for a channel from a node to
\* itself.
C18_NoSelfLoop ==
  /\ Returned =>
       \A p \in 1..Len(result.paths) :
         /\ result.paths[p][1].pubkey # our_node_id
         /\ \A h \in 1..(Len(result.paths[p]) - 1) :
              result.paths[p][h].pubkey # result.paths[p][h + 1].pubkey
  /\ (pc = "path_construction") =>
       \A n \in KnownNodes :
         add_entry(SearchState, 7, n, n, dummy_directional_info, None, EmptyFeatures,
                   0, recommended_value_msat) = SearchState

\* A path through a node that has a channel to itself is returned.
C18_Witness ==
  /\ Returned
  /\ \E c \in SelfChannels, p \in 1..Len(result.paths) :
       /\ Len(result.paths[p]) >= 2
       /\ result.paths[p][1].pubkey = network.channels[c].node_one

\* The walk from the payer's entry of dist that ConstructPath makes
WalkFromPayer ==
  PathWalk(<< dist[our_node_id] >>,
           [x \in (DOMAIN dist) \ {our_node_id} |-> dist[x]])

\* C19: in a call with neither first hops nor route hints, whenever targets.pop()
\* can return the payer, the walk over dist from the payer's entry finds an entry
\* for every node it comes to (no unreachable!(), no failed payee assertion) and
\* ends at the payee, also when an entry of dist was replaced after its node was
\* popped.
C19_WalkReachesPayee ==
  (pc = "path_construction" /\ first_hops = None /\ last_hops = << >>) =>
    \A i \in PopCandidates(targets) :
      (targets[i].pubkey = our_node_id) =>
        /\ our_node_id \in DOMAIN dist
        /\ ~WalkFromPayer.panic
        /\ WalkFromPayer.hops[Len(WalkFromPayer.hops)].route_hop.pubkey = payee

\* A step of the search that pops one node and goes on with the same iteration
PopStep ==
  /\ pc = "path_construction"
  /\ pc' = "path_construction"
  /\ Len(popped') = Len(popped) + 1
  /\ SubSeq(popped', 1, Len(popped)) = popped

\* The nodes popped so far in this search iteration
PoppedNodes ==
  { popped[k] : k \in 1..Len(popped) }

\* No pop replaces the entry of dist of a node that was popped before
FirstPopFinal ==
  PopStep =>
    \A n \in PoppedNodes \cap DOMAIN dist :
      n \in DOMAIN dist' /\ dist'[n] = dist[n]

\* A pop of a node that was popped before relaxes no edge
StalePopIgnored ==
  (PopStep /\ popped'[Len(popped')] \in PoppedNodes) =>
    /\ dist' = dist
    /\ Len(targets') = Len(targets) - 1
    /\ bookkeeped_channels_liquidity_available_msat' = bookkeeped_channels_liquidity_available_msat

\* C20: within one search iteration the first pop of a node is final: dist[node]
\* is never replaced after that pop, and a later pop of the same node relaxes no edge.
C20_FirstPopFinal ==
  [][FirstPopFinal /\ StalePopIgnored]_vars

\* old_cost / new_cost of add_entry: total_fee_msat + htlc_minimum_msat, saturating
BiasedCost(entry) == saturating_cost(entry.total_fee_msat, entry.htlc_minimum_msat)

\* The nodes of the frontier entries pushed by a pop step
PushedNodes ==
  { targets'[k].pubkey : k \in Len(targets)..Len(targets') }

\* The nodes whose entry of dist a step replaced
ReplacedNodes ==
  { n \in DOMAIN dist' :
      IF n \in DOMAIN dist THEN dist'[n] # dist[n]
      ELSE BiasedCost(dist'[n]) < U64_MAX }

\* A replaced entry is strictly cheaper than the entry it replaced
CostStrictlyDecreases ==
  \A n \in DOMAIN dist :
    /\ n \in DOMAIN dist'
    /\ (dist'[n] # dist[n]) => (BiasedCost(dist'[n]) < BiasedCost(dist[n]))

\* C21: in a step of the search that relaxes the edges into a popped node, an entry
\* of dist is replaced and a frontier entry pushed for its node exactly when the
\* candidate's cost total_fee_msat + htlc_minimum_msat (saturating) is strictly
\* below the stored entry's: the stored cost of a node strictly decreases at every
\* replacement, equal cost never replaces, and the nodes pushed are the nodes replaced.
C21_RelaxationRule ==
  [][PopStep => (CostStrictlyDecreases /\ PushedNodes = ReplacedNodes)]_vars

\* a search in which a node's entry has been replaced: the node was pushed twice
C21_Witness ==
  /\ pc = "path_construction"
  /\ \E n \in DOMAIN dist :
       /\ dist[n].route_hop.short_channel_id # 0
       /\ Cardinality({ k \in 1..Len(popped) : popped[k] = n })
            + Cardinality({ k \in 1..Len(targets) : targets[k].pubkey = n }) >= 2

\* The minimal contribution in force in a search that starts with collected msat
StatedMinimalContribution(collected) ==
  IF allow_mpp THEN (3 * final_value_msat - collected + 19) \div 20
  ELSE final_value_msat

\* A step that collects a path
CollectStep ==
  /\ pc = "path_construction"
  /\ Len(payment_paths') = Len(payment_paths) + 1

\* C22: a path carries, when it is collected, at least the minimal contribution in
\* force during its search: ceil((3 * final_value_msat - already_collected) / 20)
\* when MPP is allowed and final_value_msat when it is not.
C22_MinimalContribution ==
  [][CollectStep =>
       (get_value_msat(payment_paths'[Len(payment_paths')])
          >= StatedMinimalContribution(already_collected_value_msat))]_vars

\* a path collected under MPP in a search in which a node other than the payer was
\* popped twice, its entry of dist having been replaced after its first pop
C22_Witness ==
  /\ pc = "collected"
  /\ allow_mpp
  /\ found_new_path
  /\ \E j, k \in 1..Len(popped) :
       j < k /\ popped[j] = popped[k] /\ popped[j] # our_node_id

\* The positions of get_route at which add_entry may evaluate the minimal contribution
Searching == pc \in {"paths_collection", "path_construction"}

\* C23: whenever a search is about to start or is under way, so that the minimal
\* contribution (recommended_value_msat - already_collected_value_msat + 19) / 20 may
\* be evaluated, already_collected_value_msat < 3 * final_value_msat: the subtraction
\* does not underflow.
C23_NoUnderflow ==
  Searching => (already_collected_value_msat < 3 * final_value_msat)

\* a second search under MPP, with a collected value above 0 and edges to relax
C23_Witness ==
  /\ pc = "path_construction"
  /\ allow_mpp
  /\ already_collected_value_msat > 0
  /\ targets # << >>

\* Some step of get_route can be taken: the guards of the steps, by position
StepGuard ==
  \/ pc \in {"check_inputs", "first_hops", "paths_collection", "collected", "step4"}
  \/ pc = "path_construction" /\ (targets = << >> \/ PopCandidates(targets) # {})
  \/ pc = "draw" /\ draw_i <= Len(payment_paths)

\* get_route runs sequentially: a step that can be taken is taken.  This is weak
\* fairness of Next, with the enabledness of Next written as pc # "done": a call
\* either returns or goes on taking steps.
SpecFair == Spec /\ ([]<>(pc = "done") \/ []<><<Next>>_vars)

\* A further search is started only under MPP, after a search that collected a path,
\* and with less than the recommended value collected.
FurtherSearchRule ==
  (pc = "collected" /\ pc' = "paths_collection") =>
    /\ allow_mpp
    /\ found_new_path
    /\ already_collected_value_msat < 3 * final_value_msat

\* Every collected path adds at least 1 msat to the collected value.
CollectedValueGrows ==
  CollectStep => (already_collected_value_msat' >= already_collected_value_msat + 1)

\* A path attempt discarded for insufficient booked liquidity ends the collection.
DiscardedPathEndsCollection ==
  (pc = "collected" /\ ~found_new_path) => (pc' = "step4")

\* C24: every call of get_route terminates: every search ends, a further search is
\* started only under MPP after a search that collected a path and with less than the
\* recommended value collected, every collected path adds at least 1 msat, and a
\* path attempt discarded for insufficient liquidity ends the collection.
C24_Termination ==
  /\ <>(pc = "done")
  /\ []((pc # "done") => StepGuard)
  /\ [][FurtherSearchRule /\ CollectedValueGrows /\ DiscardedPathEndsCollection]_vars

\* a call that returned after more than one search
C24_Witness ==
  /\ pc = "done"
  /\ iterations >= 2
  /\ result.tag \in {"Ok", "Err"}

\* C25 as stated: a call makes at most 20 path searches and collects at most 20 paths.
C25_AtMost20Iterations ==
  iterations <= 20 /\ Len(payment_paths) <= 20

\* C25: a call makes at most 3 * final_value_msat path searches when MPP is allowed
\* and at most one when it is not, and collects at most one path per search.
C25_BoundedIterations ==
  /\ iterations <= (IF allow_mpp THEN 3 * final_value_msat ELSE 1)
  /\ Len(payment_paths) <= iterations

\* a call under MPP that returned a route after more than 20 path searches
C25_Witness ==
  /\ pc = "done"
  /\ result.tag = "Ok"
  /\ allow_mpp
  /\ iterations > 20

\* The paths appended to cur_route up to the one that takes the aggregate value
\* above final_value_msat, if any: [route, agg, over]
RECURSIVE OverpaidPrefix(_, _, _, _)
OverpaidPrefix(paths, k, cur_route, agg) ==
  IF k > Len(paths) THEN [route |-> cur_route, agg |-> agg, over |-> FALSE]
  ELSE IF agg + get_value_msat(paths[k]) > final_value_msat
  THEN [route |-> Append(cur_route, paths[k]),
        agg |-> agg + get_value_msat(paths[k]), over |-> TRUE]
  ELSE OverpaidPrefix(paths, k + 1, Append(cur_route, paths[k]),
                      agg + get_value_msat(paths[k]))

RECURSIVE SumValues(_, _)
SumValues(paths, n) ==
  IF n = 0 THEN 0 ELSE SumValues(paths, n - 1) + get_value_msat(paths[n])

\* The drop step on a route sorted by value that overpays by overpaid0
DropOutcome(sorted, overpaid0) ==
  [sorted |-> sorted, overpaid0 |-> overpaid0,
   r |-> Retain(sorted, 1, << >>, overpaid0, Len(sorted))]

DropAt(o) ==
  IF o.over
  THEN Some(DropOutcome(SortPathsByValue(o.route), o.agg - final_value_msat))
  ELSE None

\* The drop steps of the routes drawn from the collected paths
DropSteps ==
  { DropAt(OverpaidPrefix(Rotation(payment_paths, i), 1, << >>, 0)) :
      i \in 0..(Len(payment_paths) - 1) } \ {None}

\* d = [sorted, overpaid0, r]: what the drop step leaves is as stated
DropStepAsStated(d) ==
  LET n == Len(d.sorted)
      left == Len(d.r.route)
  IN  /\ left >= 1
      /\ d.r.route = SubSeq(d.sorted, n - left + 1, n)
      /\ d.r.overpaid = d.overpaid0 - SumValues(d.sorted, n - left)
      /\ d.r.overpaid >= 0
      /\ \A p \in 1..left : get_value_msat(d.r.route[p]) > d.r.overpaid

\* Every value reduction asked for a value within the path's value
ReductionsWithinValue ==
  \A k \in 1..Len(reduced) :
    IsSome(reduced[k]) =>
      /\ Unwrap(reduced[k]).value_msat >= 1
      /\ Unwrap(reduced[k]).value_msat <= get_value_msat(Unwrap(reduced[k]).before)

\* C26: when a drawn route overpays, the drop step removes the paths of smallest
\* value while their value is at most the remaining overpayment; at least one path
\* remains and every remaining path's value is strictly greater than the remaining
\* overpayment, so value - overpaid does not underflow and
\* update_value_and_recompute_fees is called with a value within the path's value.
C26_DropStep ==
  (pc = "draw") =>
    /\ \A d \in DropSteps : DropStepAsStated(Unwrap(d))
    /\ ReductionsWithinValue

\* a drawn route from which a path was dropped and another then reduced
C26_Witness ==
  /\ pc = "draw"
  /\ \E d \in DropSteps :
       /\ Len(Unwrap(d).r.route) < Len(Unwrap(d).sorted)
       /\ Unwrap(d).r.overpaid > 0
  /\ \E k \in 1..Len(reduced) : IsSome(reduced[k])

\* The amount a path of PathBuildingHops forwards over its hop h
ForwardedOver(hops, h) ==
  SumFeesBefore(hops, Len(hops)) - SumFeesBefore(hops, h - 1)

\* The paths of drawn route k that are not among the collected paths
ChangedPaths(k) ==
  { p \in 1..Len(drawn_routes[k]) :
      \A q \in 1..Len(payment_paths) : drawn_routes[k][p] # payment_paths[q] }

\* after is the path before, over the same channels, forwarding no more over any hop
ReducedFrom(after, before) ==
  /\ Len(after) = Len(before)
  /\ \A h \in 1..Len(before) :
       /\ after[h].route_hop.short_channel_id = before[h].route_hop.short_channel_id
       /\ after[h].route_hop.pubkey = before[h].route_hop.pubkey
       /\ after[h].route_hop.cltv_expiry_delta = before[h].route_hop.cltv_expiry_delta
       /\ ForwardedOver(after, h) <= ForwardedOver(before, h)

\* Drawn route k with the reduction rd recorded for it
SinglePathReduced(k, rd) ==
  IF ~IsSome(rd) THEN ChangedPaths(k) = {}
  ELSE /\ Cardinality(ChangedPaths(k)) <= 1
       /\ \E q \in 1..Len(payment_paths) : payment_paths[q] = Unwrap(rd).before
       /\ \A p \in 1..Len(drawn_routes[k]) :
            ProportionalFeeKey(Unwrap(rd).before)
              <= ProportionalFeeKey(drawn_routes[k][p])
       /\ \E p \in 1..Len(drawn_routes[k]) :
            /\ ChangedPaths(k) \subseteq {p}
            /\ ReducedFrom(drawn_routes[k][p], Unwrap(rd).before)

StatedFee(amount_msat, channel_fees) ==
  IF channel_fees.proportional_millionths # 0
     /\ amount_msat > U64_MAX \div channel_fees.proportional_millionths
  THEN None
  ELSE IF channel_fees.base_msat >
            U64_MAX - (amount_msat * channel_fees.proportional_millionths) \div 1000000
  THEN None
  ELSE Some(channel_fees.base_msat +
              (amount_msat * channel_fees.proportional_millionths) \div 1000000)

\* The amounts of the search: the values of the frontier entries, with and without
\* the fees of the entries of dist, and the largest amounts
SearchAmounts ==
  {final_value_msat, 3 * final_value_msat, U64_MAX}
    \cup { targets[k].value_contribution_msat : k \in DOMAIN targets }
    \cup { dist[n].total_fee_msat : n \in DOMAIN dist }

\* compute_fees is None exactly when the product or the sum overflows
ComputeFeesAsStated ==
  \A n \in DOMAIN dist : \A a \in SearchAmounts :
    /\ compute_fees(a, dist[n].channel_fees) = StatedFee(a, dist[n].channel_fees)
    /\ compute_fees(a, dist[n].src_lowest_inbound_fees) =
         StatedFee(a, dist[n].src_lowest_inbound_fees)

\* The fees of an entry of dist that a candidate of `value` replaced are the exact
\* sums: neither the hop-use fee, nor the fee of the previous hop, nor their sum
\* overflowed
ExactFees(entry, value) ==
  LET amount == value + entry.next_hops_fee_msat
      fee == StatedFee(amount, entry.channel_fees)
  IN  /\ IsSome(fee)
      /\ entry.hop_use_fee_msat = Unwrap(fee)
      /\ LET prev == StatedFee(entry.next_hops_fee_msat + Unwrap(fee) + amount,
                               entry.src_lowest_inbound_fees)
         IN  /\ IsSome(prev)
             /\ entry.total_fee_msat =
                  entry.next_hops_fee_msat + Unwrap(fee) + Unwrap(prev)
             /\ entry.total_fee_msat < U64_MAX

\* Every entry replaced by a pop step was replaced by a candidate whose fees did not
\* overflow, and so was every frontier entry pushed
OverflowNeverReplaces ==
  PopStep =>
    /\ \A n \in ReplacedNodes \ {our_node_id} :
         \E k \in Len(targets)..Len(targets') :
           /\ targets'[k].pubkey = n
           /\ targets'[k].lowest_fee_to_peer_through_node = dist'[n].total_fee_msat
           /\ ExactFees(dist'[n], targets'[k].value_contribution_msat)
    /\ \A k \in Len(targets)..Len(targets') :
         targets'[k].lowest_fee_to_peer_through_node < U64_MAX

\* The relaxation of the edges never aborts: the search ends in a panic only when
\* the payer is popped and the path is walked
RelaxationNeverAborts ==
  (pc \in {"paths_collection", "path_construction"} /\ result'.tag = "Panic") =>
    /\ Len(popped') = Len(popped) + 1
    /\ popped'[Len(popped')] = our_node_id

\* C28: overflow loses the comparison.  compute_fees is None exactly when
\* amount * proportional_millionths or base_msat + that product / 1000000 overflows;
\* a candidate whose hop-use fee, estimated previous-hop fee or their sum overflows
\* replaces no entry of dist and pushes no frontier entry (every entry replaced and
\* every entry pushed carries the exact, unsaturated fees), and the relaxation
\* neither aborts nor wraps around.
C28_OverflowLoses ==
  /\ [](ComputeFeesAsStated)
  /\ [][OverflowNeverReplaces /\ RelaxationNeverAborts]_vars

\* a search in which the only edge from a node lost the comparison because its fee
\* overflowed: the node's entry of dist is still the one inserted before the
\* comparison, of total fee u64::MAX, although the amount meets the htlc minimum
C28_Witness ==
  /\ pc = "path_construction"
  /\ \E n \in DOMAIN dist \ {our_node_id} :
       /\ dist[n].total_fee_msat = U64_MAX
       /\ dist[n].route_hop.short_channel_id = 0
       /\ \E a \in {final_value_msat, 3 * final_value_msat} :
            /\ a >= dist[n].htlc_minimum_msat
            /\ ~IsSome(compute_fees(a, dist[n].channel_fees))

\* Without MPP every collected path carries at least the payment
NonMppPathsCarryPayment ==
  (~allow_mpp) =>
    \A i \in DOMAIN payment_paths : get_value_msat(payment_paths[i]) >= final_value_msat

\* The outcome of a call without MPP whose search has run and has not panicked
NonMppOutcome ==
  (~allow_mpp /\ pc = "done" /\ iterations >= 1 /\ result.tag # "Panic") =>
    \/ result.tag = "Ok" /\ Len(result.paths) = 1
    \/ result = Err("Failed to find a path to the given destination")

TwoFirstHopsToOnePeer ==
  /\ IsSome(first_hops)
  /\ Len(Unwrap(first_hops)) = 2
  /\ LET a == Unwrap(first_hops)[1]
         b == Unwrap(first_hops)[2]
     IN  /\ IsSome(a.short_channel_id) /\ IsSome(b.short_channel_id)
         /\ a.short_channel_id # b.short_channel_id
         /\ a.remote_network_id = b.remote_network_id
         /\ a.remote_network_id \notin {our_node_id, payee}
         /\ ~a.counterparty_features.unknown /\ ~b.counterparty_features.unknown
         /\ final_value_msat > a.outbound_capacity_msat
         /\ final_value_msat > b.outbound_capacity_msat
         /\ final_value_msat <= (a.outbound_capacity_msat \div 1000) * 1000
                                  + (b.outbound_capacity_msat \div 1000) * 1000

\* A channel without fees, limits or unknown features leads from the node to the
\* payee and is wide enough for the whole payment
DownstreamSuffices(n) ==
  /\ 3 * final_value_msat <= DEFAULT_CHANNEL_CAPACITY_MSAT
  /\ \E c \in DOMAIN network.channels :
       LET chan == network.channels[c]
           d == IF chan.node_one = n THEN chan.one_to_two ELSE chan.two_to_one
       IN  /\ {chan.node_one, chan.node_two} = {n, payee}
           /\ ~chan.features.unknown
           /\ ~IsSome(chan.capacity_sats)
           /\ IsSome(d)
           /\ Unwrap(d).enabled
           /\ Unwrap(d).htlc_minimum_msat = 0
           /\ ~IsSome(Unwrap(d).htlc_maximum_msat)
           /\ Unwrap(d).fees = Fees(0, 0)

\* The channels of the first hops of the returned paths
FirstChannelsUsed ==
  { result.paths[i][1].short_channel_id : i \in DOMAIN result.paths }

\* C30: every channel listed in first_hops is available to the search.  When
\* first_hops lists two channels to the same counterparty, MPP is allowed and the
\* capacity downstream suffices, a payment larger than either channel's outbound
\* capacity but not larger than their sum is routed, and the route uses both channels.
C30_BothFirstHopsUsed ==
  (/\ pc = "done"
   /\ allow_mpp
   /\ TwoFirstHopsToOnePeer
   /\ DownstreamSuffices(Unwrap(first_hops)[1].remote_network_id)) =>
    /\ result.tag = "Ok"
    /\ FirstChannelsUsed = { Unwrap(Unwrap(first_hops)[k].short_channel_id) : k \in 1..2 }

====
